---- MODULE Spec2Model ----
(***************************************************************************)
(* Waffle Engine editor: scene hierarchy, reparent/delete coordination,    *)
(* viewport picking and gizmo manipulation                                 *)
(* (waffle_engine/src/editor/mod.rs, editor/panels.rs, rendering/scene.rs).*)
(*                                                                         *)
(* The editor is a set of Bevy systems of the Update schedule.  One frame  *)
(* runs every system once; the Commands a system issues are deferred and   *)
(* applied, in the order the systems ran, when the schedule's buffers are  *)
(* flushed at the end of the frame.  Events written by one system are read *)
(* by another when that one runs next.                                     *)
(***************************************************************************)
EXTENDS Integers, Sequences, FiniteSets, TLC

\* ------------------------------------------------------------------ bounds
\* Entity ids the model may allocate (1 = scene root, 2 = ground plane,
\* 3 = environment, the rest are spawned through the "+" menu).
MaxEntities == 4

\* Largest translation coordinate (0.0002 world units), rotation angle
\* (0.004 rad) and scale component (0.000001) the model follows.
MaxCoord == 100
MaxAngle == 10
MaxScale == 1050000

\* ------------------------------------------------------------ basic values
NoEntity == 0
Entities == 1..MaxEntities
OptEntity == Entities \cup {NoEntity}

\* Option<GizmoAxis>
GizmoAxes == {"X", "Y", "Z"}
NoAxis == "none"
GizmoModes == {"Move", "Rotate", "Scale"}
AxisSpaces == {"Local", "Global"}

\* Entities created by setup_3d_scene
SceneRoot == 1
GroundPlane == 2
Environment == 3

\* Lexicographic rank (str::cmp) of the labels the hierarchy shows: the Name
\* strings the editor gives to entities and the placeholders of unnamed ones
\* ("Cube" < "Entity" < "Entity 1" < ... < "Entity 9" < "Environment"
\*  < "Ground Plane" < "Point Light" < "Scene Root").
NameRank(n) ==
    CASE n = "Cube" -> 1
      [] n = "Entity" -> 2
      [] n = "Entity 1" -> 3
      [] n = "Entity 2" -> 4
      [] n = "Entity 3" -> 5
      [] n = "Entity 4" -> 6
      [] n = "Entity 5" -> 7
      [] n = "Entity 6" -> 8
      [] n = "Entity 7" -> 9
      [] n = "Entity 8" -> 10
      [] n = "Entity 9" -> 11
      [] n = "Environment" -> 12
      [] n = "Ground Plane" -> 13
      [] n = "Point Light" -> 14
      [] n = "Scene Root" -> 15

\* Option<&Name> is None
NoName == "(none)"

\* format!("Entity {}", entity.index())
PlaceholderLabel(index) ==
    <<"Entity 1", "Entity 2", "Entity 3", "Entity 4", "Entity 5",
      "Entity 6", "Entity 7", "Entity 8", "Entity 9">>[index]

\* SpawnPrimitiveKind values offered by the "+" menu that the model draws:
\* one that is a WaffleSceneObject with a mesh, one that is neither.
SpawnKinds == {"Cube", "PointLight"}

KindName(k) ==
    CASE k = "Empty" -> "Entity"
      [] k = "Cube" -> "Cube"
      [] k = "PointLight" -> "Point Light"

KindIsSceneObject(k) == k \in {"Empty", "Cube"}
KindHasMesh(k) == k = "Cube"

\* ------------------------------------------------------ sequence helpers
RECURSIVE SeqToSet(_)
SeqToSet(s) == IF s = <<>> THEN {} ELSE {Head(s)} \cup SeqToSet(Tail(s))

RECURSIVE SeqRemove(_, _)
SeqRemove(s, x) ==
    IF s = <<>> THEN <<>>
    ELSE IF Head(s) = x THEN SeqRemove(Tail(s), x)
    ELSE <<Head(s)>> \o SeqRemove(Tail(s), x)

\* ascending enumeration of a finite set of integers (query iteration order)
RECURSIVE SetToSeq(_)
SetToSeq(S) ==
    IF S = {} THEN <<>>
    ELSE LET m == CHOOSE x \in S : \A y \in S : x <= y
         IN <<m>> \o SetToSeq(S \ {m})

\* ------------------------------------------------------------------ state
VARIABLES
    world,                  \* the Bevy entity store (the external store)
    next_entity,            \* next entity id Commands::spawn hands out
    commands,               \* deferred Commands, applied at the end of the frame
    reparent_events,        \* Events<HierarchyReparentEvent> not yet read
    delete_events,          \* Events<DeleteEntityEvent> not yet read
    spawn_primitive_events, \* Events<SpawnPrimitiveEvent> not yet read
    editor_state,           \* the EditorState resource
    mouse_input,            \* ButtonInput<MouseButton>: [left, right] pressed this frame
    transforms,             \* Transform component of the mesh entities
    pending,                \* systems yet to run this frame, in the order they will
    fatal,                  \* "none", or how the process died: "panic" / "hang"
    frame                   \* what happened in the current frame (observation only)

vars == <<world, next_entity, commands, reparent_events, delete_events,
          spawn_primitive_events, editor_state, mouse_input, transforms,
          pending, fatal, frame>>

\* Is `system` the next system the executor runs
Due(system) == pending # <<>> /\ Head(pending) = system

\* ------------------------------------------------------- the entity store
\* World after setup_3d_scene: the scene root with the ground plane and the
\* environment entity as children (editor-hidden entities are not modelled:
\* every query of the editor filters them out).
InitWorld ==
    [ alive    |-> {SceneRoot, GroundPlane, Environment},
      parent   |-> [e \in Entities |->
                      IF e \in {GroundPlane, Environment} THEN SceneRoot ELSE NoEntity],
      children |-> [e \in Entities |->
                      IF e = SceneRoot THEN <<GroundPlane, Environment>> ELSE <<>>],
      name     |-> [e \in Entities |->
                      CASE e = SceneRoot -> "Scene Root"
                        [] e = GroundPlane -> "Ground Plane"
                        [] e = Environment -> "Environment"
                        [] OTHER -> "Entity"],
      scene_object |-> {GroundPlane, Environment},
      mesh     |-> {GroundPlane} ]

\* Children component without `child`
DetachFromParent(w, child) ==
    LET old == w.parent[child]
    IN IF old = NoEntity THEN w.children
       ELSE [w.children EXCEPT ![old] = SeqRemove(@, child)]

\* EntityCommands::set_parent (bevy_hierarchy AddChild), applied to the world.
\* Result: [w |-> world, ok |-> FALSE iff the command panics].
SetParent(w, child, new_parent) ==
    IF child \notin w.alive \/ new_parent \notin w.alive \/ child = new_parent
    THEN [w |-> w, ok |-> FALSE]
    ELSE LET detached == DetachFromParent(w, child)
         IN [w |-> [w EXCEPT !.parent[child] = new_parent,
                             !.children = [detached EXCEPT
                                  ![new_parent] = Append(detached[new_parent], child)]],
             ok |-> TRUE]

\* EntityCommands::remove_parent (bevy_hierarchy RemoveParent)
RemoveParent(w, child) ==
    IF child \notin w.alive
    THEN [w |-> w, ok |-> FALSE]
    ELSE [w |-> [w EXCEPT !.parent[child] = NoEntity,
                          !.children = DetachFromParent(w, child)],
          ok |-> TRUE]

\* Entities reached from the set S through the Children components
RECURSIVE SubtreeOf(_, _)
SubtreeOf(w, S) ==
    LET more == S \cup UNION {SeqToSet(w.children[e]) : e \in S}
    IN IF more = S THEN S ELSE SubtreeOf(w, more)

\* EntityCommands::despawn_recursive: the entity and everything below it go;
\* a missing entity is only logged.
DespawnRecursive(w, entity) ==
    IF entity \notin w.alive
    THEN [w |-> w, ok |-> TRUE]
    ELSE LET gone == SubtreeOf(w, {entity})
             det  == DetachFromParent(w, entity)
         IN [w |-> [w EXCEPT
                      !.alive = @ \ gone,
                      !.parent = [e \in Entities |-> IF e \in gone THEN NoEntity ELSE @[e]],
                      !.children = [e \in Entities |-> IF e \in gone THEN <<>> ELSE det[e]],
                      !.name = [e \in Entities |-> IF e \in gone THEN "Entity" ELSE @[e]],
                      !.scene_object = @ \ gone,
                      !.mesh = @ \ gone],
             ok |-> TRUE]

\* Commands::spawn(bundle).set_parent(parent) of apply_spawn_primitive_events
SpawnPrimitive(w, entity, kind, new_parent) ==
    LET w1 == [w EXCEPT !.alive = @ \cup {entity},
                        !.name[entity] = KindName(kind),
                        !.scene_object = IF KindIsSceneObject(kind)
                                         THEN @ \cup {entity} ELSE @,
                        !.mesh = IF KindHasMesh(kind) THEN @ \cup {entity} ELSE @]
    IN IF new_parent = NoEntity THEN [w |-> w1, ok |-> TRUE]
       ELSE SetParent(w1, entity, new_parent)

\* One deferred command applied to the world
ApplyCommand(w, c) ==
    CASE c.op = "set_parent" -> SetParent(w, c.entity, c.parent)
      [] c.op = "remove_parent" -> RemoveParent(w, c.entity)
      [] c.op = "despawn_recursive" -> DespawnRecursive(w, c.entity)
      [] c.op = "spawn" -> SpawnPrimitive(w, c.entity, c.kind, c.parent)

\* The command buffer applied in order; a panic stops the process.
RECURSIVE ApplyCommands(_, _)
ApplyCommands(w, cs) ==
    IF cs = <<>> THEN [w |-> w, ok |-> TRUE]
    ELSE LET r == ApplyCommand(w, Head(cs))
         IN IF r.ok THEN ApplyCommands(r.w, Tail(cs)) ELSE r

\* -------------------------------------------------- hierarchy snapshot
\* the label of a queried entity: its Name, or the placeholder (lines 973-976)
Label(w, e) == IF w.name[e] = NoName THEN PlaceholderLabel(e) ELSE w.name[e]

\* InsertByLabel that puts e before the entries of equal label
RECURSIVE InsertByLabelBeforeEqual(_, _, _)
InsertByLabelBeforeEqual(w, sorted, e) ==
    IF sorted = <<>> THEN <<e>>
    ELSE IF NameRank(Label(w, e)) <= NameRank(Label(w, Head(sorted)))
         THEN <<e>> \o sorted
         ELSE <<Head(sorted)>> \o InsertByLabelBeforeEqual(w, Tail(sorted), e)

\* Stable insertion of e into a list already sorted by label (sort_by is stable)
RECURSIVE InsertByLabel(_, _, _)
InsertByLabel(w, sorted, e) ==
    IF sorted = <<>> THEN <<e>>
    ELSE IF NameRank(Label(w, e)) < NameRank(Label(w, Head(sorted)))
         THEN <<e>> \o sorted
         ELSE <<Head(sorted)>> \o InsertByLabel(w, Tail(sorted), e)

RECURSIVE SortByLabel(_, _)
SortByLabel(w, list) ==
    IF list = <<>> THEN <<>>
    ELSE InsertByLabel(w, SortByLabel(w, SubSeq(list, 1, Len(list) - 1)), list[Len(list)])

\* the traversal of build_hierarchy_snapshot: explicit stack, visited set
RECURSIVE SnapshotVisit(_, _, _)
SnapshotVisit(children, stack, visited) ==
    IF stack = <<>> THEN visited
    ELSE LET current == stack[Len(stack)]
             rest == SubSeq(stack, 1, Len(stack) - 1)
         IN IF current \in visited
            THEN SnapshotVisit(children, rest, visited)
            ELSE SnapshotVisit(children,
                               IF current \in DOMAIN children
                               THEN rest \o children[current] ELSE rest,
                               visited \cup {current})

\* build_hierarchy_snapshot that skips the scope filter: with a root it still
\* returns the maps of the whole query
BuildHierarchySnapshotUnscoped(w, root) ==
    LET all_entities == SetToSeq(w.alive)
        has_parent == {e \in w.alive : w.parent[e] # NoEntity}
        parents == {w.parent[e] : e \in has_parent}
        children == [p \in parents |->
                       SortByLabel(w, SelectSeq(all_entities, LAMBDA e : w.parent[e] = p))]
        names == [e \in w.alive |-> Label(w, e)]
        roots == IF root # NoEntity THEN <<root>>
                 ELSE SortByLabel(w, SelectSeq(all_entities, LAMBDA e : e \notin has_parent))
    IN [roots |-> roots, children |-> children, names |-> names]

\* build_hierarchy_snapshot(query, root): roots, children, names.
\* The query yields the live entities in id order; root = NoEntity is None.
BuildHierarchySnapshot(w, root) ==
    LET all_entities == SetToSeq(w.alive)
        has_parent == {e \in w.alive : w.parent[e] # NoEntity}
        parents == {w.parent[e] : e \in has_parent}
        children == [p \in parents |->
                       SortByLabel(w, SelectSeq(all_entities, LAMBDA e : w.parent[e] = p))]
        names == [e \in w.alive |-> Label(w, e)]
        roots == IF root # NoEntity THEN <<root>>
                 ELSE SortByLabel(w, SelectSeq(all_entities, LAMBDA e : e \notin has_parent))
    IN IF root # NoEntity
       THEN LET visited == SnapshotVisit(children, <<root>>, {})
            IN [roots |-> roots,
                children |-> [p \in (parents \cap visited) |-> children[p]],
                names |-> [e \in (w.alive \cap visited) |-> names[e]]]
       ELSE [roots |-> roots, children |-> children, names |-> names]

\* scene_root_query.get_single().ok()
SceneRootOf(w) == IF SceneRoot \in w.alive THEN SceneRoot ELSE NoEntity

\* draw_hierarchy_node recurses through hierarchy.children with no visited
\* set: TRUE iff the recursion from `entity` goes deeper than `fuel` levels.
RECURSIVE DrawRecursesBeyond(_, _, _)
DrawRecursesBeyond(h, entity, fuel) ==
    IF fuel = 0 THEN TRUE
    ELSE IF entity \in DOMAIN h.children
         THEN \E i \in 1..Len(h.children[entity]) :
                  DrawRecursesBeyond(h, h.children[entity][i], fuel - 1)
         ELSE FALSE

\* The panel's recursion never returns (a cycle below a root: more levels
\* than there are entities).
HierarchyDrawOverflows(h) ==
    \E i \in 1..Len(h.roots) : DrawRecursesBeyond(h, h.roots[i], MaxEntities + 1)

\* Entities for which draw_hierarchy_node draws a row (drag source, drop zone,
\* clickable label)
RECURSIVE DrawnBelow(_, _)
DrawnBelow(h, S) ==
    LET more == S \cup UNION {SeqToSet(h.children[e]) : e \in S \cap DOMAIN h.children}
    IN IF more = S THEN S ELSE DrawnBelow(h, more)

DrawnNodes(h) == DrawnBelow(h, SeqToSet(h.roots))

\* ------------------------------------------------------------- picking
\* Option<GizmoOverlay>: absent, or present with or without the rotate rings
NoOverlay == [present |-> FALSE, rotate_rings |-> FALSE]
Overlays == [present : {TRUE}, rotate_rings : BOOLEAN] \cup {NoOverlay}

\* the handles in the order pick_gizmo_axis tests them
AxisOrder == <<"X", "Y", "Z">>

\* threshold of pick_gizmo_axis, in screen units
GizmoThreshold == 10

\* NearestHandle that lets a later handle at the same distance replace the best
RECURSIVE NearestHandleKeepsLast(_, _, _)
NearestHandleKeepsLast(dist, i, best) ==
    IF i > Len(AxisOrder) THEN best
    ELSE LET axis == AxisOrder[i]
             distance == dist[axis]
         IN IF distance <= GizmoThreshold /\ (best = <<>> \/ distance <= best[2])
            THEN NearestHandleKeepsLast(dist, i + 1, <<axis, distance>>)
            ELSE NearestHandleKeepsLast(dist, i + 1, best)

\* The loop of pick_gizmo_axis over the three handles: best is <<axis, distance>>
\* or <<>>; dist[a] is the distance from the click to the handle of axis a
\* (distance_to_segment for Move/Scale, distance_to_polyline for Rotate).
RECURSIVE NearestHandle(_, _, _)
NearestHandle(dist, i, best) ==
    IF i > Len(AxisOrder) THEN best
    ELSE LET axis == AxisOrder[i]
             distance == dist[axis]
         IN IF distance <= GizmoThreshold /\ (best = <<>> \/ distance < best[2])
            THEN NearestHandle(dist, i + 1, <<axis, distance>>)
            ELSE NearestHandle(dist, i + 1, best)

\* pick_gizmo_axis(overlay, mode, click_pos) -> Option<GizmoAxis>
PickGizmoAxis(overlay, mode, dist) ==
    IF ~overlay.present THEN NoAxis
    ELSE LET best == IF mode = "Rotate"
                     THEN IF overlay.rotate_rings
                          THEN NearestHandle(dist, 1, <<>>) ELSE <<>>
                     ELSE NearestHandle(dist, 1, <<>>)
         IN IF best = <<>> THEN NoAxis ELSE best[1]

\* ray_aabb_intersection_world returned None for the candidate
NoHit == -1

\* f32::NEG_INFINITY and f32::INFINITY: beyond every parameter of the model
NegInfinity == -1000
Infinity == 1000

\* the end of ray_aabb_intersection (lines 808-814): None, entry or exit
RayAabbResult(tmin, tmax) ==
    IF tmax < 0 THEN NoHit
    ELSE IF tmin >= 0 THEN tmin
    ELSE tmax

\* RayAabbLoop without the test tmin > tmax
RECURSIVE RayAabbLoopKeepsEmptySlab(_, _, _, _, _, _, _)
RayAabbLoopKeepsEmptySlab(origin, direction, min, max, i, tmin, tmax) ==
    IF i > 3 THEN RayAabbResult(tmin, tmax)
    ELSE IF direction[i] = 0
         THEN IF origin[i] < min[i] \/ origin[i] > max[i] THEN NoHit
              ELSE RayAabbLoopKeepsEmptySlab(origin, direction, min, max, i + 1, tmin, tmax)
         ELSE LET inv == direction[i]
                  a  == (min[i] - origin[i]) * inv
                  b  == (max[i] - origin[i]) * inv
                  t1 == IF a > b THEN b ELSE a
                  t2 == IF a > b THEN a ELSE b
                  lo == IF tmin > t1 THEN tmin ELSE t1
                  hi == IF tmax < t2 THEN tmax ELSE t2
              IN RayAabbLoopKeepsEmptySlab(origin, direction, min, max, i + 1, lo, hi)

\* RayAabbLoop whose parallel-axis test also rejects an origin on the slab's
\* boundary
RECURSIVE RayAabbLoopOpenSlab(_, _, _, _, _, _, _)
RayAabbLoopOpenSlab(origin, direction, min, max, i, tmin, tmax) ==
    IF i > 3 THEN RayAabbResult(tmin, tmax)
    ELSE IF direction[i] = 0
         THEN IF origin[i] <= min[i] \/ origin[i] >= max[i] THEN NoHit
              ELSE RayAabbLoopOpenSlab(origin, direction, min, max, i + 1, tmin, tmax)
         ELSE LET inv == direction[i]
                  a  == (min[i] - origin[i]) * inv
                  b  == (max[i] - origin[i]) * inv
                  t1 == IF a > b THEN b ELSE a
                  t2 == IF a > b THEN a ELSE b
                  lo == IF tmin > t1 THEN tmin ELSE t1
                  hi == IF tmax < t2 THEN tmax ELSE t2
              IN IF lo > hi THEN NoHit
                 ELSE RayAabbLoopOpenSlab(origin, direction, min, max, i + 1, lo, hi)

\* The loop of ray_aabb_intersection over the three axes (lines 784-806).
\* Coordinates are integers and a direction component is -1, 0 or 1, so that
\* inv = 1.0 / dir_i is dir_i itself and every parameter t is an integer; a
\* component of 0 is the one the code treats as parallel (abs() < 1e-6).
RECURSIVE RayAabbLoop(_, _, _, _, _, _, _)
RayAabbLoop(origin, direction, min, max, i, tmin, tmax) ==
    IF i > 3 THEN RayAabbResult(tmin, tmax)
    ELSE IF direction[i] = 0
         THEN IF origin[i] < min[i] \/ origin[i] > max[i] THEN NoHit
              ELSE RayAabbLoop(origin, direction, min, max, i + 1, tmin, tmax)
         ELSE LET inv == direction[i]
                  a  == (min[i] - origin[i]) * inv
                  b  == (max[i] - origin[i]) * inv
                  t1 == IF a > b THEN b ELSE a
                  t2 == IF a > b THEN a ELSE b
                  lo == IF tmin > t1 THEN tmin ELSE t1
                  hi == IF tmax < t2 THEN tmax ELSE t2
              IN IF lo > hi THEN NoHit
                 ELSE RayAabbLoop(origin, direction, min, max, i + 1, lo, hi)

\* ray_aabb_intersection(origin, direction, min, max) -> Option<f32>
RayAabbIntersection(origin, direction, min, max) ==
    RayAabbLoop(origin, direction, min, max, 1, NegInfinity, Infinity)

\* BestHit with a candidate as near as the best one replacing it
RECURSIVE BestHitKeepsLast(_, _)
BestHitKeepsLast(candidates, best_hit) ==
    IF candidates = <<>> THEN best_hit
    ELSE LET c == Head(candidates)
         IN IF c[2] = NoHit
            THEN BestHitKeepsLast(Tail(candidates), best_hit)
            ELSE IF best_hit = <<>> \/ c[2] <= best_hit[2]
                 THEN BestHitKeepsLast(Tail(candidates), c)
                 ELSE BestHitKeepsLast(Tail(candidates), best_hit)

\* The candidate loop of handle_viewport_picking: candidates is the sequence
\* mesh_query.iter() yields, each <<entity, distance>> with distance = NoHit
\* when the mesh has no bounds or the ray misses them; best_hit is
\* <<entity, distance>> or <<>>.
RECURSIVE BestHit(_, _)
BestHit(candidates, best_hit) ==
    IF candidates = <<>> THEN best_hit
    ELSE LET c == Head(candidates)
         IN IF c[2] = NoHit
            THEN BestHit(Tail(candidates), best_hit)
            ELSE IF best_hit = <<>> \/ c[2] < best_hit[2]
                 THEN BestHit(Tail(candidates), c)
                 ELSE BestHit(Tail(candidates), best_hit)

\* handle_viewport_picking that tests the scene objects before the handles
HandleViewportPickingSceneFirst(es, click) ==
    IF ~es.viewport_clicked THEN es
    ELSE LET es1 == [es EXCEPT !.viewport_clicked = FALSE,
                               !.active_axis = NoAxis,
                               !.viewport_click_pos = FALSE]
             axis == PickGizmoAxis(es.gizmo_overlay, es.gizmo_mode, click.handle_dist)
             best_hit == BestHit(click.candidates, <<>>)
         IN IF ~es.viewport_click_pos THEN es1
            ELSE IF click.ray_ok /\ best_hit # <<>>
                 THEN [es1 EXCEPT !.selected_entity = best_hit[1]]
            ELSE IF axis # NoAxis THEN [es1 EXCEPT !.active_axis = axis]
            ELSE IF ~click.ray_ok THEN es1
            ELSE [es1 EXCEPT !.selected_entity = NoEntity]

\* handle_viewport_picking that leaves the selection alone when nothing is hit
HandleViewportPickingKeepsOnMiss(es, click) ==
    IF ~es.viewport_clicked THEN es
    ELSE LET es1 == [es EXCEPT !.viewport_clicked = FALSE,
                               !.active_axis = NoAxis,
                               !.viewport_click_pos = FALSE]
             axis == PickGizmoAxis(es.gizmo_overlay, es.gizmo_mode, click.handle_dist)
             best_hit == BestHit(click.candidates, <<>>)
         IN IF ~es.viewport_click_pos THEN es1
            ELSE IF axis # NoAxis THEN [es1 EXCEPT !.active_axis = axis]
            ELSE IF ~click.ray_ok THEN es1
            ELSE IF best_hit # <<>>
                 THEN [es1 EXCEPT !.selected_entity = best_hit[1]]
                 ELSE es1

\* handle_viewport_picking(editor_state, camera_query, mesh_query, meshes).
\* click = [handle_dist, ray_ok, candidates]: the distances from the click to
\* the gizmo handles, whether the single main camera yields a pick ray
\* (camera_query.get_single and viewport_to_world), and the mesh candidates.
HandleViewportPicking(es, click) ==
    IF ~es.viewport_clicked THEN es
    ELSE LET es1 == [es EXCEPT !.viewport_clicked = FALSE,
                               !.active_axis = NoAxis,
                               !.viewport_click_pos = FALSE]
             axis == PickGizmoAxis(es.gizmo_overlay, es.gizmo_mode, click.handle_dist)
             best_hit == BestHit(click.candidates, <<>>)
         IN IF ~es.viewport_click_pos THEN es1
            ELSE IF axis # NoAxis THEN [es1 EXCEPT !.active_axis = axis]
            ELSE IF ~click.ray_ok THEN es1
            ELSE IF best_hit # <<>>
                 THEN [es1 EXCEPT !.selected_entity = best_hit[1]]
                 ELSE [es1 EXCEPT !.selected_entity = NoEntity]

\* --------------------------------------------------- update_editor_ui
\* EditorState::default()
InitEditorState ==
    [ selected_entity |-> NoEntity,
      gizmo_mode |-> "Move",
      active_axis |-> NoAxis,
      axis_space |-> "Global",
      gizmo_overlay |-> NoOverlay,
      viewport_focused |-> FALSE,
      viewport_hovered |-> FALSE,
      viewport_clicked |-> FALSE,
      viewport_click_pos |-> FALSE,    \* Option<Vec2>: is it Some
      delete_confirm |-> NoEntity ]

\* What the user does in one frame, as egui reports it to update_editor_ui:
\*   kind     the gesture (one per frame)
\*   entity, target   the hierarchy rows it concerns
\*   arg      gizmo mode / axis space / spawn kind chosen
\*   hover    is the pointer over the viewport image
\*   typing   ctx.wants_keyboard_input()
\*   projects, rings  do the gizmo origin and tips / all ring samples project
\*   click    the pick geometry of a viewport press
NoClick == [handle_dist |-> [a \in GizmoAxes |-> GizmoThreshold + 1],
            ray_ok |-> TRUE, candidates |-> <<>>]

Gesture(kind, entity, target, arg, hover, typing, projects, rings, click) ==
    [kind |-> kind, entity |-> entity, target |-> target, arg |-> arg,
     hover |-> hover, typing |-> typing, projects |-> projects, rings |-> rings,
     click |-> click]

\* gestures that egui reports as a primary click outside the viewport image
OutsideClickKinds ==
    {"toolbar_mode", "toolbar_space", "hier_click", "hier_click_root_zone",
     "hier_click_empty", "spawn", "delete_button", "dialog_delete", "dialog_cancel"}

\* Can the user make gesture g in this frame: rows must be drawn, the dialog
\* must be open to click its buttons, the button going down over the viewport
\* image is a viewport press, and a click or drop needs the button up.
GestureEnabled(g, h, es, mouse, prev_left) ==
    /\ g.kind \in {"hier_click"} => g.entity \in DrawnNodes(h)
    /\ g.kind = "drop" => /\ g.entity \in DrawnNodes(h)
                          /\ g.target \in DrawnNodes(h)
    /\ g.kind = "drop_root" => g.entity \in DrawnNodes(h)
    /\ g.kind \in {"dialog_delete", "dialog_cancel"} => es.delete_confirm # NoEntity
    /\ g.kind = "viewport_press" <=> mouse.left /\ ~prev_left /\ g.hover
    /\ g.kind = "viewport_click" => ~mouse.left /\ g.hover
    /\ g.kind \in OutsideClickKinds \cup {"drop", "drop_root"} => ~mouse.left /\ ~g.hover
    /\ g.kind = "right_look" => mouse.right /\ g.hover
    /\ g.kind # "right_look" => ~(mouse.right /\ g.hover)

\* the overlay rebuilt from the selection the frame started with (lines 403-442)
RebuildOverlay(es, w, g) ==
    [es EXCEPT !.gizmo_overlay =
        IF es.selected_entity # NoEntity /\ es.selected_entity \in w.alive /\ g.projects
        THEN [present |-> TRUE, rotate_rings |-> g.rings]
        ELSE NoOverlay]

\* Q / W / E shortcuts (lines 446-456)
ShortcutKeys(es, g, mouse) ==
    IF ~g.typing /\ ~mouse.right
    THEN CASE g.kind = "key_q" -> [es EXCEPT !.gizmo_mode = "Move"]
           [] g.kind = "key_w" -> [es EXCEPT !.gizmo_mode = "Rotate"]
           [] g.kind = "key_e" -> [es EXCEPT !.gizmo_mode = "Scale"]
           [] OTHER -> es
    ELSE es

\* Move / Rotate / Scale and Global / Local buttons (lines 514-550)
Toolbar(es, g) ==
    CASE g.kind = "toolbar_mode" -> [es EXCEPT !.gizmo_mode = g.arg]
      [] g.kind = "toolbar_space" -> [es EXCEPT !.axis_space = g.arg]
      [] OTHER -> es

\* draw_viewport_panel: hover, click and focus bookkeeping
DrawViewportPanel(es, g, mouse) ==
    LET clicked == g.kind = "viewport_press"
    IN [es EXCEPT
          !.viewport_hovered = g.hover,
          !.viewport_clicked = clicked,
          !.viewport_click_pos = clicked,
          !.viewport_focused =
              IF g.kind = "viewport_click" \/ (mouse.right /\ g.hover) THEN TRUE
              ELSE IF g.kind = "key_escape" THEN FALSE
              ELSE IF g.kind \in OutsideClickKinds /\ ~g.hover THEN FALSE
              ELSE @]

\* draw_hierarchy_panel / draw_hierarchy_node: the EditorState part
DrawHierarchyPanel(es, g) ==
    CASE g.kind = "delete_button" ->
            IF es.selected_entity # NoEntity
            THEN [es EXCEPT !.delete_confirm = es.selected_entity] ELSE es
      [] g.kind = "hier_click_root_zone" -> [es EXCEPT !.selected_entity = NoEntity]
      [] g.kind = "hier_click_empty" -> [es EXCEPT !.selected_entity = NoEntity]
      [] g.kind = "hier_click" -> [es EXCEPT !.selected_entity = g.entity]
      [] OTHER -> es

\* the reparent_queue the hierarchy panel fills
ReparentQueue(g) ==
    CASE g.kind = "drop" ->
            IF g.entity # g.target
            THEN <<[child |-> g.entity, new_parent |-> g.target]>> ELSE <<>>
      [] g.kind = "drop_root" -> <<[child |-> g.entity, new_parent |-> NoEntity]>>
      [] OTHER -> <<>>

\* the spawn_primitive_queue the "+" menu fills
SpawnPrimitiveQueue(g) ==
    IF g.kind = "spawn" THEN <<[kind |-> g.arg, parent |-> NoEntity]>> ELSE <<>>

\* Delete key (lines 609-615)
DeleteKey(es, g) ==
    IF /\ es.delete_confirm = NoEntity
       /\ g.kind = "key_delete"
       /\ es.selected_entity # NoEntity
       /\ ~g.typing
    THEN [es EXCEPT !.delete_confirm = es.selected_entity]
    ELSE es

\* DeleteDialog with a Delete button that leaves the selection alone
DeleteDialogKeepsSelection(es, g) ==
    IF es.delete_confirm = NoEntity THEN es
    ELSE CASE g.kind \in {"dialog_delete", "dialog_cancel"} ->
                [es EXCEPT !.delete_confirm = NoEntity]
           [] OTHER -> es

\* "Delete Entity?" window (lines 617-647): the EditorState part
DeleteDialog(es, g) ==
    IF es.delete_confirm = NoEntity THEN es
    ELSE CASE g.kind = "dialog_delete" ->
                [es EXCEPT !.selected_entity =
                               IF @ = es.delete_confirm THEN NoEntity ELSE @,
                           !.delete_confirm = NoEntity]
           [] g.kind = "dialog_cancel" -> [es EXCEPT !.delete_confirm = NoEntity]
           [] OTHER -> es

\* DeleteDialogEvents with an X button that deletes at once
DeleteDialogEventsUngated(es, g) ==
    IF es.delete_confirm # NoEntity /\ g.kind = "dialog_delete"
    THEN <<es.delete_confirm>>
    ELSE IF es.selected_entity # NoEntity /\ g.kind = "delete_button"
         THEN <<es.selected_entity>> ELSE <<>>

\* the DeleteEntityEvent the window sends
DeleteDialogEvents(es, g) ==
    IF es.delete_confirm # NoEntity /\ g.kind = "dialog_delete"
    THEN <<es.delete_confirm>> ELSE <<>>

\* EditorState after the whole of update_editor_ui
EditorUiResult(es, w, g, mouse) ==
    LET es1 == RebuildOverlay(es, w, g)
        es2 == ShortcutKeys(es1, g, mouse)
        es3 == Toolbar(es2, g)
        es4 == DrawViewportPanel(es3, g, mouse)
        es5 == DrawHierarchyPanel(es4, g)
        es6 == HandleViewportPicking(es5, g.click)
        es7 == DeleteKey(es6, g)
    IN  [state |-> DeleteDialog(es7, g), deleted |-> DeleteDialogEvents(es7, g)]

\* System update_editor_ui, for the gesture g of this frame
UpdateEditorUi(g) ==
    /\ fatal = "none"
    /\ Due("ui")
    /\ LET h == BuildHierarchySnapshot(world, SceneRootOf(world))
       IN IF HierarchyDrawOverflows(h)
          THEN /\ fatal' = "overflow"
               /\ UNCHANGED <<editor_state, reparent_events, delete_events,
                              spawn_primitive_events>>
          ELSE /\ GestureEnabled(g, h, editor_state, mouse_input, frame.prev_left)
               /\ LET r == EditorUiResult(editor_state, world, g, mouse_input)
                  IN /\ editor_state' = r.state
                     /\ delete_events' = delete_events \o r.deleted
               /\ reparent_events' = reparent_events \o ReparentQueue(g)
               /\ spawn_primitive_events' = spawn_primitive_events \o SpawnPrimitiveQueue(g)
               /\ fatal' = fatal
    /\ pending' = Tail(pending)
    /\ UNCHANGED <<world, next_entity, commands, mouse_input, transforms, frame>>

\* ------------------------------------------- reparent / delete / spawn
Cmd(op, entity, new_parent, kind) ==
    [op |-> op, entity |-> entity, parent |-> new_parent, kind |-> kind]

\* The loop of is_descendant(ancestor, node, children_query): explicit stack,
\* no visited set.  On an acyclic store it pops every entity at most once, so
\* a run that pops more than MaxEntities entities never ends (hang).
RECURSIVE IsDescendantLoop(_, _, _, _)
IsDescendantLoop(w, ancestor, stack, fuel) ==
    IF stack = <<>> THEN [hang |-> FALSE, value |-> FALSE]
    ELSE LET current == stack[Len(stack)]
             rest == SubSeq(stack, 1, Len(stack) - 1)
         IN IF current = ancestor THEN [hang |-> FALSE, value |-> TRUE]
            ELSE IF fuel = 0 THEN [hang |-> TRUE, value |-> FALSE]
            ELSE IsDescendantLoop(w, ancestor, rest \o w.children[current], fuel - 1)

\* is_descendant(ancestor, node, children_query)
IsDescendant(w, ancestor, node) ==
    IsDescendantLoop(w, ancestor, <<node>>, MaxEntities)

\* The loop of apply_reparent_events over the events read: the commands it
\* issues and how it ends ("none", "hang" in is_descendant, "panic" in
\* Commands::entity on a despawned child).
RECURSIVE ApplyReparentLoop(_, _, _)
ApplyReparentLoop(w, events, cmds) ==
    IF events = <<>> THEN [cmds |-> cmds, fatal |-> "none"]
    ELSE LET event == Head(events)
             d == IsDescendant(w, event.child, event.new_parent)
         IN IF event.new_parent # NoEntity
            THEN IF event.child = event.new_parent
                 THEN ApplyReparentLoop(w, Tail(events), cmds)
                 ELSE IF d.hang THEN [cmds |-> cmds, fatal |-> "hang"]
                 ELSE IF d.value THEN ApplyReparentLoop(w, Tail(events), cmds)
                 ELSE IF event.child \notin w.alive THEN [cmds |-> cmds, fatal |-> "panic"]
                 ELSE ApplyReparentLoop(w, Tail(events),
                         Append(cmds, Cmd("set_parent", event.child, event.new_parent, "")))
            ELSE IF event.child \notin w.alive THEN [cmds |-> cmds, fatal |-> "panic"]
                 ELSE ApplyReparentLoop(w, Tail(events),
                         Append(cmds, Cmd("remove_parent", event.child, NoEntity, "")))

\* System apply_reparent_events
ApplyReparentEvents ==
    /\ fatal = "none"
    /\ Due("reparent")
    /\ LET r == ApplyReparentLoop(world, reparent_events, <<>>)
       IN /\ commands' = commands \o r.cmds
          /\ fatal' = r.fatal
    /\ reparent_events' = <<>>
    /\ pending' = Tail(pending)
    /\ UNCHANGED <<world, next_entity, delete_events, spawn_primitive_events,
                   editor_state, mouse_input, transforms, frame>>

\* The loop of apply_delete_events: despawn_recursive for every event whose
\* entity still exists
RECURSIVE ApplyDeleteLoop(_, _)
ApplyDeleteLoop(w, events) ==
    IF events = <<>> THEN <<>>
    ELSE (IF Head(events) \in w.alive
          THEN <<Cmd("despawn_recursive", Head(events), NoEntity, "")>> ELSE <<>>)
         \o ApplyDeleteLoop(w, Tail(events))

\* apply_delete_events that despawns in the store at once instead of through
\* the deferred Commands
ApplyDeleteEventsAtOnce ==
    /\ fatal = "none"
    /\ Due("delete")
    /\ world' = ApplyCommands(world, ApplyDeleteLoop(world, delete_events)).w
    /\ delete_events' = <<>>
    /\ pending' = Tail(pending)
    /\ UNCHANGED <<commands, next_entity, reparent_events, spawn_primitive_events,
                   editor_state, mouse_input, transforms, fatal, frame>>

\* System apply_delete_events
ApplyDeleteEvents ==
    /\ fatal = "none"
    /\ Due("delete")
    /\ commands' = commands \o ApplyDeleteLoop(world, delete_events)
    /\ delete_events' = <<>>
    /\ pending' = Tail(pending)
    /\ UNCHANGED <<world, next_entity, reparent_events, spawn_primitive_events,
                   editor_state, mouse_input, transforms, fatal, frame>>

\* The loop of apply_spawn_primitive_events: Commands::spawn reserves the
\* next entity id at once; the bundle and set_parent are deferred.
RECURSIVE ApplySpawnLoop(_, _, _)
ApplySpawnLoop(root, events, next) ==
    IF events = <<>> THEN <<>>
    ELSE LET event == Head(events)
             new_parent == IF event.parent # NoEntity THEN event.parent ELSE root
         IN <<Cmd("spawn", next, new_parent, event.kind)>>
            \o ApplySpawnLoop(root, Tail(events), next + 1)

\* System apply_spawn_primitive_events
ApplySpawnPrimitiveEvents ==
    /\ fatal = "none"
    /\ Due("spawn")
    /\ commands' = commands \o
           ApplySpawnLoop(SceneRootOf(world), spawn_primitive_events, next_entity)
    /\ next_entity' = next_entity + Len(spawn_primitive_events)
    /\ spawn_primitive_events' = <<>>
    /\ pending' = Tail(pending)
    /\ UNCHANGED <<world, reparent_events, delete_events, editor_state,
                   mouse_input, transforms, fatal, frame>>

\* ensure_scene_root_parenting that leaves the parentless scene objects alone
EnsureSceneRootParentingIdle ==
    /\ fatal = "none"
    /\ Due("root")
    /\ pending' = Tail(pending)
    /\ UNCHANGED <<world, next_entity, commands, reparent_events, delete_events,
                   spawn_primitive_events, editor_state, mouse_input, transforms,
                   fatal, frame>>

\* System ensure_scene_root_parenting: every scene object without a parent is
\* put under the entity of the SceneRootEntity resource
EnsureSceneRootParenting ==
    /\ fatal = "none"
    /\ Due("root")
    /\ LET orphans == SelectSeq(SetToSeq(world.alive \cap world.scene_object),
                                LAMBDA e : world.parent[e] = NoEntity /\ e # SceneRoot)
       IN commands' = commands \o
              [i \in 1..Len(orphans) |-> Cmd("set_parent", orphans[i], SceneRoot, "")]
    /\ pending' = Tail(pending)
    /\ UNCHANGED <<world, next_entity, reparent_events, delete_events,
                   spawn_primitive_events, editor_state, mouse_input, transforms,
                   fatal, frame>>

\* ------------------------------------- update_selected_entity_transform
\* Fixed-point units: translation in 0.0002 world units, camera distance in
\* 0.1 world units (so drag_speed = 0.002 * distance is 1 translation unit per
\* pixel and distance unit), rotation angles in 0.004 rad (1 per pixel), scale
\* in 0.000001 (a product with the clamped factor, in 0.001, is exact for
\* every scale that is a multiple of 0.001).
Vec3(x, y, z) == <<x, y, z>>
VAdd(a, b) == <<a[1] + b[1], a[2] + b[2], a[3] + b[3]>>
VScale(a, k) == <<a[1] * k, a[2] * k, a[3] * k>>
VDot(a, b) == a[1] * b[1] + a[2] * b[2] + a[3] * b[3]
AxisIndex(axis) == CASE axis = "X" -> 1 [] axis = "Y" -> 2 [] axis = "Z" -> 3
UnitVec(axis) == [i \in 1..3 |-> IF i = AxisIndex(axis) THEN 1 ELSE 0]

\* A rotation about one world axis: quarter turns plus angle units.
\* axis = "none" is the identity.
IdentityRotation == [axis |-> "none", quarter |-> 0, angle |-> 0]
NormalRotation(r) ==
    IF r.axis # "none" /\ r.quarter % 4 = 0 /\ r.angle = 0 THEN IdentityRotation
    ELSE [r EXCEPT !.quarter = @ % 4]

\* v turned a quarter turn about a world axis
QuarterTurn(axis, v) ==
    CASE axis = "X" -> <<v[1], -v[3], v[2]>>
      [] axis = "Y" -> <<v[3], v[2], -v[1]>>
      [] axis = "Z" -> <<-v[2], v[1], v[3]>>

RECURSIVE QuarterTurns(_, _, _)
QuarterTurns(axis, n, v) ==
    IF n = 0 THEN v ELSE QuarterTurns(axis, n - 1, QuarterTurn(axis, v))

\* Is rotation * unit(axis) an integer vector of the model
RotatedAxisDefined(r, axis) ==
    r.axis = "none" \/ r.axis = axis \/ r.angle = 0

\* transform.rotation * Vec3::X / Y / Z
RotatedAxis(r, axis) ==
    IF r.axis = "none" \/ r.axis = axis THEN UnitVec(axis)
    ELSE QuarterTurns(r.axis, r.quarter % 4, UnitVec(axis))

\* axis_dir of the Move and Rotate arms (lines 1146-1153, 1164-1171)
AxisDir(t, space, axis) ==
    IF space = "Local" THEN RotatedAxis(t.rotation, axis) ELSE UnitVec(axis)

\* the world axis a signed unit vector lies along, and its sign
DirAxis(d) == CASE d[1] # 0 -> "X" [] d[2] # 0 -> "Y" [] d[3] # 0 -> "Z"
DirSign(d) == d[1] + d[2] + d[3]

\* Can the model represent Quat::from_axis_angle(d, angle) * r
RotateDefined(r, d) == r.axis = "none" \/ r.axis = DirAxis(d)

\* transform.rotate that turns the other way round
RotateAboutOpposite(r, d, angle) ==
    NormalRotation([axis |-> DirAxis(d),
                    quarter |-> r.quarter,
                    angle |-> r.angle - DirSign(d) * angle])

\* transform.rotate(Quat::from_axis_angle(d, angle))
RotateAbout(r, d, angle) ==
    NormalRotation([axis |-> DirAxis(d),
                    quarter |-> r.quarter,
                    angle |-> r.angle + DirSign(d) * angle])

Clamp(x, lo, hi) == IF x < lo THEN lo ELSE IF x > hi THEN hi ELSE x
Max(a, b) == IF a >= b THEN a ELSE b

\* the floor .max(0.01) of a scale component, in 0.000001
ScaleFloor == 10000

\* c * k / 1000 for k in 0.001, computed in two parts to stay within 32 bits
MulMilli(c, k) == (c \div 1000) * k + ((c % 1000) * k) \div 1000

\* ScaledComponent without the floor
ScaledComponentNoFloor(c, delta) ==
    LET amount == 1000 + (delta[1] + delta[2]) * 5
        clamped == Clamp(amount, 100, 10000)
    IN MulMilli(c, clamped)

\* (transform.scale.c * clamped).max(0.01), amount = 1.0 + (dx + dy) * 0.005
ScaledComponent(c, delta) ==
    LET amount == 1000 + (delta[1] + delta[2]) * 5
        clamped == Clamp(amount, 100, 10000)
    IN Max(MulMilli(c, clamped), ScaleFloor)

\* DragTransform whose Scale arm scales all three components
DragTransformScalesUniformly(t, mode, axis, space, delta, cam) ==
    LET distance == Max(cam.distance, 1)
        world_delta == VScale(VAdd(VScale(cam.right, delta[1]),
                                   VScale(cam.up, -delta[2])), distance)
    IN CASE mode = "Move" ->
              IF axis # NoAxis
              THEN LET axis_dir == AxisDir(t, space, axis)
                       amount == VDot(world_delta, axis_dir)
                   IN [t EXCEPT !.translation = VAdd(@, VScale(axis_dir, amount))]
              ELSE [t EXCEPT !.translation = VAdd(@, world_delta)]
         [] mode = "Rotate" ->
              IF axis = NoAxis THEN t
              ELSE [t EXCEPT !.rotation =
                       RotateAbout(@, AxisDir(t, space, axis), delta[1] + delta[2])]
         [] mode = "Scale" ->
              IF axis = NoAxis THEN t
              ELSE [t EXCEPT !.scale = [i \in 1..3 |-> ScaledComponent(@[i], delta)]]

\* DragTransform whose Move arm adds the world delta whatever axis is grabbed
DragTransformMovesFreely(t, mode, axis, space, delta, cam) ==
    LET distance == Max(cam.distance, 1)
        world_delta == VScale(VAdd(VScale(cam.right, delta[1]),
                                   VScale(cam.up, -delta[2])), distance)
    IN CASE mode = "Move" -> [t EXCEPT !.translation = VAdd(@, world_delta)]
         [] mode = "Rotate" ->
              IF axis = NoAxis THEN t
              ELSE [t EXCEPT !.rotation =
                       RotateAbout(@, AxisDir(t, space, axis), delta[1] + delta[2])]
         [] mode = "Scale" ->
              IF axis = NoAxis THEN t
              ELSE [t EXCEPT !.scale[AxisIndex(axis)] = ScaledComponent(@, delta)]

\* The match on gizmo_mode of update_selected_entity_transform (lines
\* 1137-1187) for the selected entity's transform t.  cam = [right, up,
\* distance]: the camera's right and up vectors and its distance to the object.
DragTransform(t, mode, axis, space, delta, cam) ==
    LET distance == Max(cam.distance, 1)
        world_delta == VScale(VAdd(VScale(cam.right, delta[1]),
                                   VScale(cam.up, -delta[2])), distance)
    IN CASE mode = "Move" ->
              IF axis # NoAxis
              THEN LET axis_dir == AxisDir(t, space, axis)
                       amount == VDot(world_delta, axis_dir)
                   IN [t EXCEPT !.translation = VAdd(@, VScale(axis_dir, amount))]
              ELSE [t EXCEPT !.translation = VAdd(@, world_delta)]
         [] mode = "Rotate" ->
              IF axis = NoAxis THEN t
              ELSE [t EXCEPT !.rotation =
                       RotateAbout(@, AxisDir(t, space, axis), delta[1] + delta[2])]
         [] mode = "Scale" ->
              IF axis = NoAxis THEN t
              ELSE [t EXCEPT !.scale[AxisIndex(axis)] = ScaledComponent(@, delta)]

\* The drags whose result the rotation representation above can express
DragDefined(t, mode, axis, space) ==
    axis # NoAxis /\ mode \in {"Move", "Rotate"} =>
        /\ space = "Local" => RotatedAxisDefined(t.rotation, axis)
        /\ mode = "Rotate" => RotateDefined(t.rotation, AxisDir(t, space, axis))

\* The transforms the model follows (bound on the state space)
TransformWithinBounds(t) ==
    /\ \A i \in 1..3 : t.translation[i] \in -MaxCoord..MaxCoord
    /\ t.rotation.angle \in -MaxAngle..MaxAngle
    /\ \A i \in 1..3 : t.scale[i] <= MaxScale

\* DragBlocked without the test of viewport_focused
DragBlockedIgnoresFocus(es, wants_pointer) ==
    wants_pointer /\ ~es.viewport_hovered

\* Does update_selected_entity_transform return before its mouse-button test
\* (lines 1092-1099): pointer wanted by egui outside the viewport, or
\* viewport not focused
DragBlocked(es, wants_pointer) ==
    \/ wants_pointer /\ ~es.viewport_hovered
    \/ ~es.viewport_focused

\* EditorState after update_selected_entity_transform
DragEditorState(es, mouse, wants_pointer) ==
    IF DragBlocked(es, wants_pointer) THEN es
    ELSE IF ~mouse.left THEN [es EXCEPT !.active_axis = NoAxis]
    ELSE es

\* Does update_selected_entity_transform reach its match on gizmo_mode
DragApplies(es, w, mouse, wants_pointer, delta) ==
    /\ ~DragBlocked(es, wants_pointer)
    /\ mouse.left
    /\ es.selected_entity # NoEntity
    /\ ~mouse.right
    /\ delta # <<0, 0>>
    /\ es.selected_entity \in w.alive

\* System update_selected_entity_transform
UpdateSelectedEntityTransform(wants_pointer, delta, cam) ==
    /\ fatal = "none"
    /\ Due("xform")
    /\ editor_state' = DragEditorState(editor_state, mouse_input, wants_pointer)
    /\ IF DragApplies(editor_state, world, mouse_input, wants_pointer, delta)
       THEN LET selected == editor_state.selected_entity
                t == transforms[selected]
            IN /\ DragDefined(t, editor_state.gizmo_mode, editor_state.active_axis,
                              editor_state.axis_space)
               /\ transforms' = [transforms EXCEPT ![selected] =
                      DragTransform(t, editor_state.gizmo_mode, editor_state.active_axis,
                                    editor_state.axis_space, delta, cam)]
               /\ TransformWithinBounds(transforms'[selected])
       ELSE transforms' = transforms
    /\ pending' = Tail(pending)
    /\ UNCHANGED <<world, next_entity, commands, reparent_events, delete_events,
                   spawn_primitive_events, mouse_input, fatal, frame>>

\* ------------------------------------------------------------ the frame
\* Transform::default()
DefaultTransform ==
    [translation |-> <<0, 0, 0>>, rotation |-> IdentityRotation,
     scale |-> <<1000000, 1000000, 1000000>>]

\* Transforms after setup_3d_scene: the ground plane is turned -90 degrees
\* about X
InitTransforms ==
    [e \in Entities |->
        IF e = GroundPlane
        THEN [DefaultTransform EXCEPT
                 !.rotation = NormalRotation([axis |-> "X", quarter |-> -1, angle |-> 0])]
        ELSE DefaultTransform]

NoButtons == [left |-> FALSE, right |-> FALSE]

\* End of one run of the Update schedule and start of the next: the deferred
\* commands are applied, the input of the new frame is polled and every system
\* of `systems` is due again.
NextFrame(order, mouse) ==
    /\ fatal = "none"
    /\ pending = <<>>
    /\ LET r == ApplyCommands(world, commands)
       IN /\ world' = r.w
          /\ fatal' = IF r.ok THEN "none" ELSE "panic"
    /\ commands' = <<>>
    /\ mouse_input' = mouse
    /\ frame' = [prev_left |-> mouse_input.left,
                 focused |-> editor_state.viewport_focused]
    /\ pending' = order
    /\ UNCHANGED <<next_entity, reparent_events, delete_events,
                   spawn_primitive_events, editor_state, transforms>>

Init ==
    /\ world = InitWorld
    /\ next_entity = 4
    /\ commands = <<>>
    /\ reparent_events = <<>>
    /\ delete_events = <<>>
    /\ spawn_primitive_events = <<>>
    /\ editor_state = InitEditorState
    /\ mouse_input = NoButtons
    /\ transforms = InitTransforms
    /\ pending = <<>>
    /\ fatal = "none"
    /\ frame = [prev_left |-> FALSE, focused |-> FALSE]

\* -------------------------------------------- Spec: editing the hierarchy
\* The user works in the hierarchy panel, the "+" menu and the delete dialog;
\* the mouse buttons are up in every frame the model shows (the frames in
\* which a click or drag is in progress change nothing here).
\* Spec follows the frames in which the systems run in the order the plugins
\* add them (rendering before editor, update_editor_ui before the event
\* readers); a reader that the executor runs before update_editor_ui reads
\* its events one frame later.
HierarchyOrder == <<"root", "ui", "reparent", "delete", "spawn">>

HierarchyGesture(kind, entity, target, arg) ==
    Gesture(kind, entity, target, arg, FALSE, FALSE, FALSE, FALSE, NoClick)

HierarchyGestures ==
    {HierarchyGesture(k, NoEntity, NoEntity, "") :
        k \in {"idle", "hier_click_root_zone", "hier_click_empty", "delete_button",
               "key_delete", "dialog_delete", "dialog_cancel"}}
    \cup {HierarchyGesture("hier_click", e, NoEntity, "") : e \in Entities}
    \cup {HierarchyGesture("drop", c, t, "") : c \in Entities, t \in Entities}
    \cup {HierarchyGesture("drop_root", c, NoEntity, "") : c \in Entities}
    \cup {HierarchyGesture("spawn", NoEntity, NoEntity, k) : k \in SpawnKinds}

\* Commands::spawn can still hand out an id of the model
SpawnWithinBound(g) ==
    g.kind = "spawn" => next_entity + Len(spawn_primitive_events) <= MaxEntities

HierarchyUi ==
    \E g \in HierarchyGestures : SpawnWithinBound(g) /\ UpdateEditorUi(g)

HierarchyFrame == NextFrame(HierarchyOrder, NoButtons)

Next ==
    \/ HierarchyFrame
    \/ HierarchyUi
    \/ ApplyReparentEvents
    \/ ApplyDeleteEvents
    \/ ApplySpawnPrimitiveEvents
    \/ EnsureSceneRootParenting

Spec == Init /\ [][Next]_vars

\* ------------------------------------------------- reparent coordinator
\* The commands the step of apply_reparent_events added to the buffer
IssuedCommands == SeqToSet(SubSeq(commands', Len(commands) + 1, Len(commands')))

\* C1: apply_reparent_events rejects (issues no set_parent for) every request
\* (child, new_parent) whose new_parent is the child itself or lies in the
\* child's subtree; in the chain A -> B -> C the request (A, C) is rejected.
ReparentRejectsDescendant ==
    [][ApplyReparentEvents =>
         \A i \in 1..Len(reparent_events) :
             LET event == reparent_events[i]
             IN (/\ event.new_parent # NoEntity
                 /\ event.new_parent \in SubtreeOf(world, {event.child}))
                => Cmd("set_parent", event.child, event.new_parent, "")
                       \notin IssuedCommands]_vars

\* C2: apply_reparent_events accepts (issues set_parent for) every request
\* (child, new_parent) between live entities whose new_parent is neither the
\* child nor in the child's subtree, an ancestor of the child included.  The
\* formula asks it only of the requests that name a parent other than the
\* current one.
ReparentAcceptsNonDescendant ==
    [][ApplyReparentEvents =>
         \A i \in 1..Len(reparent_events) :
             LET event == reparent_events[i]
             IN (/\ event.new_parent # NoEntity
                 /\ {event.child, event.new_parent} \subseteq world.alive
                 /\ event.new_parent \notin SubtreeOf(world, {event.child})
                 /\ world.parent[event.child] # event.new_parent)
                => Cmd("set_parent", event.child, event.new_parent, "")
                       \in IssuedCommands]_vars

\* The entities met walking up the Parent components from e (at most fuel steps)
RECURSIVE ProperAncestors(_, _, _)
ProperAncestors(w, e, fuel) ==
    IF fuel = 0 \/ w.parent[e] = NoEntity THEN {}
    ELSE {w.parent[e]} \cup ProperAncestors(w, w.parent[e], fuel - 1)

\* C3: whatever reparent, spawn and delete requests the editor has issued,
\* the parent relation of the store is acyclic: no entity is its own ancestor.
ParentRelationAcyclic ==
    \A e \in world.alive : e \notin ProperAncestors(world, e, MaxEntities)

\* ----------------------------------------------------- delete coordinator
\* C4: deletion is confirmation-gated.  A delete request (the panel's X button
\* or the Delete key) sends no DeleteEntityEvent and changes nothing but
\* delete_confirm, which it sets to the selection; an event is sent only by the
\* dialog's Delete button, for the pending target; Cancel clears
\* delete_confirm, sends nothing and leaves the selection unchanged.
DeleteIsConfirmationGated ==
    [][/\ \A g \in HierarchyGestures :
            (/\ g.kind \in {"delete_button", "key_delete", "dialog_cancel"}
             /\ UpdateEditorUi(g)
             /\ fatal' = "none") =>
                /\ delete_events' = delete_events
                /\ editor_state'.selected_entity = editor_state.selected_entity
                /\ editor_state'.delete_confirm \in
                       IF g.kind = "dialog_cancel" THEN {NoEntity}
                       ELSE {editor_state.delete_confirm, editor_state.selected_entity}
       /\ (Due("ui") /\ delete_events' # delete_events) =>
            /\ editor_state.delete_confirm # NoEntity
            /\ delete_events' = Append(delete_events, editor_state.delete_confirm)
            /\ \A g \in HierarchyGestures :
                   UpdateEditorUi(g) => g.kind = "dialog_delete"]_vars

\* a confirmed deletion of a live entity is waiting for apply_delete_events
DeleteConfirmedReached ==
    /\ delete_events # <<>>
    /\ delete_events[1] \in world.alive
    /\ editor_state.delete_confirm = NoEntity

\* C5: when the dialog's Delete button confirms the pending target n, the
\* selection becomes none if it was n and is unchanged otherwise, and
\* delete_confirm is cleared.
ConfirmClearsSelectionOfTarget ==
    [][\A g \in HierarchyGestures :
          (g.kind = "dialog_delete" /\ UpdateEditorUi(g) /\ fatal' = "none") =>
              /\ editor_state'.selected_entity =
                    IF editor_state.selected_entity = editor_state.delete_confirm
                    THEN NoEntity ELSE editor_state.selected_entity
              /\ editor_state'.delete_confirm = NoEntity]_vars

\* a deletion was confirmed while another entity was selected
ConfirmKeptOtherSelection ==
    /\ delete_events # <<>>
    /\ editor_state.delete_confirm = NoEntity
    /\ editor_state.selected_entity \notin {NoEntity, delete_events[1]}

\* ------------------------------ SpecPick: handle_viewport_picking alone
\* handle_viewport_picking applied once to every EditorState in which a
\* viewport click waits and every pick geometry of the sets below.

\* entities that can carry a mesh: the ground plane and spawned primitives
MeshEntities == Entities \ {SceneRoot, Environment}

\* what ray_aabb_intersection_world returns for a candidate
HitDistances == {1, 2}
CandidateDistances == HitDistances \cup {NoHit}

\* mesh_query.iter(): every order of every set of mesh entities, each with
\* the outcome of its intersection test
RECURSIVE CandidateLists(_)
CandidateLists(S) ==
    {<<>>} \cup
    UNION {{<<<<e, d>>>> \o rest : d \in CandidateDistances,
                                    rest \in CandidateLists(S \ {e})} : e \in S}

\* distance of the click to each handle: at the threshold or beyond it
HandleDistances == [GizmoAxes -> {GizmoThreshold, GizmoThreshold + 1}]

PickClicks ==
    [handle_dist : HandleDistances, ray_ok : BOOLEAN,
     candidates : CandidateLists(MeshEntities)]

\* EditorState when handle_viewport_picking is called on a click: the overlay
\* exists only for a selection, and a grab of the last drag may still be set
PickStates ==
    {[InitEditorState EXCEPT !.selected_entity = sel, !.gizmo_mode = mode,
                             !.gizmo_overlay = overlay, !.active_axis = axis,
                             !.viewport_focused = TRUE, !.viewport_hovered = TRUE,
                             !.viewport_clicked = TRUE, !.viewport_click_pos = TRUE] :
        sel \in OptEntity, mode \in GizmoModes, overlay \in Overlays,
        axis \in {NoAxis, "X"}}

PickInit ==
    /\ world = InitWorld
    /\ next_entity = 4
    /\ commands = <<>>
    /\ reparent_events = <<>>
    /\ delete_events = <<>>
    /\ spawn_primitive_events = <<>>
    /\ editor_state \in {es \in PickStates :
                            es.gizmo_overlay.present => es.selected_entity # NoEntity}
    /\ mouse_input = [left |-> TRUE, right |-> FALSE]
    /\ transforms = InitTransforms
    /\ pending = <<>>
    /\ fatal = "none"
    /\ \E click \in PickClicks :
          frame = [before |-> editor_state, click |-> click, applied |-> FALSE]

\* the call of handle_viewport_picking in update_editor_ui (lines 601-606)
ViewportPick ==
    /\ ~frame.applied
    /\ editor_state' = HandleViewportPicking(editor_state, frame.click)
    /\ frame' = [frame EXCEPT !.applied = TRUE]
    /\ UNCHANGED <<world, next_entity, commands, reparent_events, delete_events,
                   spawn_primitive_events, mouse_input, transforms, pending, fatal>>

SpecPick == PickInit /\ [][ViewportPick]_vars

\* the handle the click of this run hits, if any
HitAxis ==
    PickGizmoAxis(frame.before.gizmo_overlay, frame.before.gizmo_mode,
                  frame.click.handle_dist)

\* positions of the candidates the ray intersects
Hits == {i \in 1..Len(frame.click.candidates) : frame.click.candidates[i][2] # NoHit}

\* C6: gizmo handles take priority over scene picking.  After a click that
\* hits a handle of the overlay, active_axis is the hit axis and the selection
\* is what it was, whatever scene objects lie under the click; the selection
\* changes only when no handle is hit.
HandleHitTakesPriority ==
    frame.applied =>
        /\ HitAxis # NoAxis =>
              /\ editor_state.active_axis = HitAxis
              /\ editor_state.selected_entity = frame.before.selected_entity
        /\ editor_state.selected_entity # frame.before.selected_entity =>
              HitAxis = NoAxis

\* a handle was grabbed although the ray hit a scene object that is not selected
HandleGrabbedOverSceneObject ==
    /\ frame.applied
    /\ editor_state.active_axis # NoAxis
    /\ frame.click.ray_ok
    /\ \E i \in Hits : frame.click.candidates[i][1] # editor_state.selected_entity

\* C7 as stated: after any viewport click that grabs no handle and hits no
\* scene object the selection is none, whatever was selected before.
MissClearsSelection ==
    (frame.applied /\ HitAxis = NoAxis /\ Hits = {}) =>
        editor_state.selected_entity = NoEntity

\* C7, amended: after a viewport click for which the camera yields a pick ray,
\* which grabs no handle and hits no scene object, the selection is none.
MissWithRayClearsSelection ==
    (frame.applied /\ HitAxis = NoAxis /\ frame.click.ray_ok /\ Hits = {}) =>
        editor_state.selected_entity = NoEntity

\* a selection was cleared by a click that missed every candidate
SelectionClearedByMiss ==
    /\ frame.applied
    /\ frame.before.selected_entity # NoEntity
    /\ HitAxis = NoAxis
    /\ frame.click.ray_ok
    /\ frame.click.candidates # <<>>
    /\ Hits = {}
    /\ editor_state.selected_entity = NoEntity

\* C8: scene picking selects the candidate with the smallest hit distance,
\* the first of them in the sequence when several share it, and never a
\* candidate the ray does not intersect.
ScenePickKeepsFirstNearest ==
    (frame.applied /\ HitAxis = NoAxis /\ frame.click.ray_ok) =>
        LET c == frame.click.candidates
        IN /\ Hits # {} =>
                \E i \in Hits :
                    /\ \A j \in Hits : c[i][2] <= c[j][2]
                    /\ \A j \in Hits : j < i => c[j][2] > c[i][2]
                    /\ editor_state.selected_entity = c[i][1]
           /\ \A i \in (1..Len(c)) \ Hits : editor_state.selected_entity # c[i][1]

\* two candidates at the same smallest distance, the first one selected
TieKeptFirst ==
    /\ frame.applied
    /\ HitAxis = NoAxis
    /\ frame.click.ray_ok
    /\ \E i \in Hits, j \in Hits :
          /\ i < j
          /\ frame.click.candidates[i][2] = frame.click.candidates[j][2]
          /\ \A k \in Hits : frame.click.candidates[i][2] <= frame.click.candidates[k][2]
          /\ editor_state.selected_entity = frame.click.candidates[i][1]

\* -------------------------------- SpecManip: the viewport and the gizmo
\* The user presses, drags and releases the primary button in and around the
\* viewport, selects the ground plane and changes the gizmo mode; the scene
\* keeps the entities of setup_3d_scene.  update_editor_ui and
\* update_selected_entity_transform run once a frame, in either order.
ManipOrders == {<<"ui", "xform">>, <<"xform", "ui">>}

ManipGesture(kind, entity, hover, click) ==
    Gesture(kind, entity, NoEntity, "", hover, FALSE, TRUE, TRUE, click)

\* a press at the handle of `axis`, with the ground plane behind it
HandleClick(axis) ==
    [handle_dist |-> [a \in GizmoAxes |->
                        IF a = axis THEN GizmoThreshold ELSE GizmoThreshold + 1],
     ray_ok |-> TRUE,
     candidates |-> <<<<GroundPlane, 1>>>>]

ManipGestures ==
    {ManipGesture(k, NoEntity, h, NoClick) :
        k \in {"idle", "key_escape"}, h \in BOOLEAN}
    \cup {ManipGesture(k, NoEntity, FALSE, NoClick) :
        k \in {"key_q", "key_w", "key_e", "hier_click_empty"}}
    \cup {ManipGesture("hier_click", GroundPlane, FALSE, NoClick),
          ManipGesture("viewport_click", NoEntity, TRUE, NoClick),
          ManipGesture("viewport_press", NoEntity, TRUE, NoClick)}
    \cup {ManipGesture("viewport_press", NoEntity, TRUE, HandleClick(a)) : a \in GizmoAxes}

\* mouse motion of a frame, in pixels
ManipDeltas == {<<0, 0>>, <<10, 0>>}

\* the camera looks down -Z from 1.0 world units away
ManipCameras == {[right |-> <<1, 0, 0>>, up |-> <<0, 1, 0>>, distance |-> 10]}

ManipUi == \E g \in ManipGestures : UpdateEditorUi(g)

ManipDrag ==
    \E wants_pointer \in BOOLEAN, delta \in ManipDeltas, cam \in ManipCameras :
        UpdateSelectedEntityTransform(wants_pointer, delta, cam)

ManipFrame ==
    \E order \in ManipOrders, left \in BOOLEAN :
        NextFrame(order, [left |-> left, right |-> FALSE])

NextManip ==
    \/ ManipFrame
    \/ ManipUi
    \/ ManipDrag

SpecManip == Init /\ [][NextManip]_vars

\* C9: active_axis is set only by the grab of a handle and is cleared when the
\* primary button is released or the viewport loses focus.  The formula states
\* the clearing: at the end of a frame in which the button went up or
\* viewport_focused went from true to false, active_axis is none.
ActiveAxisClearedOnReleaseOrFocusLoss ==
    (pending = <<>> /\ fatal = "none") =>
        ((\/ frame.prev_left /\ ~mouse_input.left
          \/ frame.focused /\ ~editor_state.viewport_focused)
            => editor_state.active_axis = NoAxis)

\* C10: update_selected_entity_transform changes a transform only when, as it
\* runs, the primary button is pressed, viewport_focused is set and the
\* pointer is not wanted by egui outside the viewport; otherwise every
\* transform stays as it is.  No other system of the frame changes one.
DragOnlyWhileHeldFocusedUncaptured ==
    [][transforms' # transforms =>
          /\ Due("xform")
          /\ mouse_input.left
          /\ editor_state.viewport_focused
          /\ \A wants_pointer \in BOOLEAN, delta \in ManipDeltas, cam \in ManipCameras :
                 UpdateSelectedEntityTransform(wants_pointer, delta, cam) =>
                     ~(wants_pointer /\ ~editor_state.viewport_hovered)]_vars

\* a drag has moved, turned or scaled the ground plane
GroundPlaneDragged == transforms[GroundPlane] # InitTransforms[GroundPlane]

\* C11: switching the gizmo mode or deselecting while an axis is grabbed ends
\* the manipulation at once.  The formula states its first half: a run of
\* update_editor_ui that changes gizmo_mode, or clears the selection, while
\* active_axis is set leaves active_axis none.
ModeSwitchEndsManipulation ==
    [][(/\ Due("ui")
        /\ editor_state.active_axis # NoAxis
        /\ \/ editor_state'.gizmo_mode # editor_state.gizmo_mode
           \/ /\ editor_state.selected_entity # NoEntity
              /\ editor_state'.selected_entity = NoEntity)
       => editor_state'.active_axis = NoAxis]_vars

\* ------------------------------------------------- ordering in a frame
\* C12: a frame never observes a hierarchy mutation it requested itself.
\* No system of a frame changes the entity store: update_editor_ui leaves the
\* store, the command buffer and hence the snapshot it built as they were
\* (its intents leave as events only), and the store changes only when the
\* frame's systems have all run and the deferred commands are applied.
FrameNeverObservesOwnMutation ==
    [][/\ pending # <<>> => world' = world
       /\ Due("ui") =>
             /\ commands' = commands
             /\ BuildHierarchySnapshot(world', SceneRootOf(world'))
                    = BuildHierarchySnapshot(world, SceneRootOf(world))
       /\ world' # world => pending = <<>> /\ commands # <<>>]_vars

\* at the end of a frame a reparent it requested waits in the command buffer
\* and the store still shows the old parent
OwnMutationStillDeferred ==
    /\ pending = <<>>
    /\ \E i \in 1..Len(commands) :
          /\ commands[i].op = "set_parent"
          /\ commands[i].parent # SceneRoot
          /\ world.parent[commands[i].entity] # commands[i].parent

\* C13: per-frame hierarchy processing is never fatal.  For every store the
\* editor can bring about, a cycle in the parent data included, building the
\* snapshot and drawing the hierarchy panel from it terminate.  (The traversal
\* of build_hierarchy_snapshot keeps a visited set and ends on every store;
\* the formula is about the recursion of draw_hierarchy_node.)
HierarchyProcessingTerminates ==
    /\ ~HierarchyDrawOverflows(BuildHierarchySnapshot(world, SceneRootOf(world)))
    /\ fatal # "overflow"

\* ------------------------- SpecSnapshot: build_hierarchy_snapshot alone
\* build_hierarchy_snapshot applied, twice in a row, to every store and
\* scopeRoot of the sets below.  The parent data is whatever the store holds,
\* cycles included; an entity's id is its position in the query's iteration.

\* Name components of the stores: an editor name (it sorts before every
\* placeholder), or none
SnapshotNames == {"Cube", NoName}

\* Parent components: none, or any other entity
ParentMaps ==
    {p \in [Entities -> OptEntity] : \A e \in Entities : p[e] # e}

\* Entities that carry EditorHidden and so are outside the snapshot's query:
\* none, or the last one
HiddenSets == {{}, {MaxEntities}}

\* the store with these Parent and Name components (Children mirrors Parent);
\* `alive` holds the entities the query Without<EditorHidden> yields
StoreOf(parent, name, hidden) ==
    [ alive    |-> Entities \ hidden,
      parent   |-> parent,
      children |-> [p \in Entities |->
                      SelectSeq(SetToSeq(Entities), LAMBDA e : parent[e] = p)],
      name     |-> name,
      scene_object |-> {},
      mesh     |-> {} ]

\* a HierarchySnapshot with nothing in it (no build done yet)
EmptySnapshot == [roots |-> <<>>, children |-> <<>>, names |-> <<>>]

SnapshotInit ==
    /\ \E parent \in ParentMaps, name \in [Entities -> SnapshotNames],
          hidden \in HiddenSets :
          world = StoreOf(parent, name, hidden)
    /\ next_entity = MaxEntities + 1
    /\ commands = <<>>
    /\ reparent_events = <<>>
    /\ delete_events = <<>>
    /\ spawn_primitive_events = <<>>
    /\ editor_state = InitEditorState
    /\ mouse_input = NoButtons
    /\ transforms = InitTransforms
    /\ pending = <<>>
    /\ fatal = "none"
    /\ \E root \in world.alive \cup {NoEntity} :
          frame = [root |-> root, builds |-> 0,
                   first |-> EmptySnapshot, second |-> EmptySnapshot]

\* build_hierarchy_snapshot that takes the entities it retains out of their
\* parents in the store
SnapshotBuildDetaches ==
    /\ frame.builds < 2
    /\ LET h == BuildHierarchySnapshot(world, frame.root)
       IN /\ frame' = [frame EXCEPT !.builds = @ + 1,
                                    !.first = IF frame.builds = 0 THEN h ELSE @,
                                    !.second = IF frame.builds = 1 THEN h ELSE @]
          /\ world' = [world EXCEPT !.parent =
                          [e \in Entities |-> IF e \in DOMAIN h.names /\ frame.root # NoEntity
                                              THEN NoEntity ELSE world.parent[e]]]
    /\ UNCHANGED <<next_entity, commands, reparent_events, delete_events,
                   spawn_primitive_events, editor_state, mouse_input, transforms,
                   pending, fatal>>

\* the call of build_hierarchy_snapshot in update_editor_ui (lines 362-366)
SnapshotBuild ==
    /\ frame.builds < 2
    /\ LET h == BuildHierarchySnapshot(world, frame.root)
       IN frame' = [frame EXCEPT !.builds = @ + 1,
                                 !.first = IF frame.builds = 0 THEN h ELSE @,
                                 !.second = IF frame.builds = 1 THEN h ELSE @]
    /\ UNCHANGED <<world, next_entity, commands, reparent_events, delete_events,
                   spawn_primitive_events, editor_state, mouse_input, transforms,
                   pending, fatal>>

SpecSnapshot == SnapshotInit /\ [][SnapshotBuild]_vars

\* number of positions of list that hold n
RECURSIVE CountIn(_, _)
CountIn(list, n) ==
    IF list = <<>> THEN 0
    ELSE (IF Head(list) = n THEN 1 ELSE 0) + CountIn(Tail(list), n)

RECURSIVE SumOver(_, _, _)
SumOver(h, keys, n) ==
    IF keys = {} THEN 0
    ELSE LET k == CHOOSE x \in keys : TRUE
         IN CountIn(h.children[k], n) + SumOver(h, keys \ {k}, n)

\* how often n appears in the snapshot: in roots and in all children lists
Appearances(h, n) == CountIn(h.roots, n) + SumOver(h, DOMAIN h.children, n)

\* C14: for every input with a scopeRoot, every node reachable from scopeRoot
\* appears exactly once in the snapshot, as the sole root or in exactly one
\* children list, and no node appears twice.
EveryReachableNodeAppearsOnce ==
    (frame.builds >= 1 /\ frame.root # NoEntity) =>
        /\ frame.first.roots = <<frame.root>>
        /\ \A n \in SubtreeOf(world, {frame.root}) : Appearances(frame.first, n) = 1
        /\ \A n \in Entities : Appearances(frame.first, n) <= 1

\* the lists of a snapshot: its roots and every children list
SnapshotLists(h) == {h.roots} \cup {h.children[p] : p \in DOMAIN h.children}

\* list is in non-decreasing order of label, equal labels in enumeration order
SortedByLabelStable(h, list) ==
    \A i \in 1..Len(list), j \in 1..Len(list) :
        (i < j /\ {list[i], list[j]} \subseteq DOMAIN h.names) =>
            \/ NameRank(h.names[list[i]]) < NameRank(h.names[list[j]])
            \/ /\ h.names[list[i]] = h.names[list[j]]
               /\ list[i] < list[j]

\* C15: in every snapshot the root list and every children list are in
\* non-decreasing lexicographic order of label, the label of an unnamed node
\* being the placeholder "Entity {index}", and nodes of equal label keep their
\* enumeration order.
SnapshotListsSortedStable ==
    frame.builds >= 1 =>
        /\ \A e \in DOMAIN frame.first.names :
              frame.first.names[e] =
                  IF world.name[e] = NoName THEN PlaceholderLabel(e) ELSE world.name[e]
        /\ \A list \in SnapshotLists(frame.first) :
              /\ SeqToSet(list) \subseteq DOMAIN frame.first.names
              /\ SortedByLabelStable(frame.first, list)

\* a list of the snapshot holds two nodes of equal label in enumeration order,
\* a placeholder label, and a node placed before one enumerated earlier
SortedListWithTie ==
    /\ frame.builds >= 1
    /\ \E list \in SnapshotLists(frame.first) :
          /\ \E i \in 1..Len(list), j \in 1..Len(list) :
                /\ i < j
                /\ frame.first.names[list[i]] = frame.first.names[list[j]]
          /\ \E i \in 1..Len(list), j \in 1..Len(list) :
                i < j /\ list[i] > list[j]
          /\ \E i \in 1..Len(list) : world.name[list[i]] = NoName

DragScales == {ScaleFloor, ScaleFloor + 1000, 50000, 1000000, 2000000}

DragTranslations == {<<0, 0, 0>>, <<5, -3, 2>>}

\* rotations before the drag: none, the ground plane's, a quarter turn about Z
DragRotations ==
    {IdentityRotation,
     NormalRotation([axis |-> "X", quarter |-> -1, angle |-> 0]),
     NormalRotation([axis |-> "Z", quarter |-> 1, angle |-> 0])}

DragTransforms ==
    {[translation |-> tr, rotation |-> r, scale |-> <<c, c, c>>] :
        tr \in DragTranslations, r \in DragRotations, c \in DragScales}

\* accumulated MouseMotion of the frame, in pixels (never zero: line 1129)
DragDeltas == {<<10, 0>>, <<0, -10>>, <<3, 4>>, <<-10, 0>>, <<-200, 0>>, <<2000, 0>>}

\* camera.right(), camera.up() and the camera's distance to the object (0.1
\* world units; 0 is nearer than the 0.1 the code raises it to)
DragCameras ==
    {[right |-> r[1], up |-> r[2], distance |-> d] :
        r \in {<<<<1, 0, 0>>, <<0, 1, 0>>>>,
               <<<<0, 0, -1>>, <<0, 1, 0>>>>,
               <<<<1, 0, 0>>, <<0, 0, -1>>>>},
        d \in {0, 10}}

DragStates ==
    {[InitEditorState EXCEPT !.selected_entity = GroundPlane, !.gizmo_mode = mode,
                             !.active_axis = axis, !.axis_space = space,
                             !.viewport_focused = TRUE, !.viewport_hovered = TRUE] :
        mode \in GizmoModes, axis \in GizmoAxes \cup {NoAxis}, space \in AxisSpaces}

DragInit ==
    /\ world = InitWorld
    /\ next_entity = 4
    /\ commands = <<>>
    /\ reparent_events = <<>>
    /\ delete_events = <<>>
    /\ spawn_primitive_events = <<>>
    /\ editor_state \in DragStates
    /\ mouse_input = [left |-> TRUE, right |-> FALSE]
    /\ \E t \in DragTransforms :
          /\ DragDefined(t, editor_state.gizmo_mode, editor_state.active_axis,
                         editor_state.axis_space)
          /\ transforms = [InitTransforms EXCEPT ![GroundPlane] = t]
    /\ pending = <<>>
    /\ fatal = "none"
    /\ \E delta \in DragDeltas, cam \in DragCameras :
          frame = [before |-> transforms[GroundPlane], delta |-> delta, cam |-> cam,
                   applied |-> FALSE]

\* lines 1133-1187 of update_selected_entity_transform
DragOnce ==
    /\ ~frame.applied
    /\ transforms' = [transforms EXCEPT ![editor_state.selected_entity] =
           DragTransform(@, editor_state.gizmo_mode, editor_state.active_axis,
                         editor_state.axis_space, frame.delta, frame.cam)]
    /\ frame' = [frame EXCEPT !.applied = TRUE]
    /\ UNCHANGED <<world, next_entity, commands, reparent_events, delete_events,
                   spawn_primitive_events, editor_state, mouse_input, pending, fatal>>

SpecDrag == DragInit /\ [][DragOnce]_vars

\* a Scale drag under a grabbed axis has been applied
ScaleDragDone ==
    frame.applied /\ editor_state.gizmo_mode = "Scale" /\ editor_state.active_axis # NoAxis

\* the scale component of the grabbed axis after the drag
ScaledNow == transforms[GroundPlane].scale[AxisIndex(editor_state.active_axis)]

\* C17 as stated: after any Scale drag, for any mouse delta and any prior
\* scale, the scaled component is strictly greater than 0.01.
ScaleStaysAboveFloor ==
    ScaleDragDone => ScaledNow > ScaleFloor

\* C17, amended: after any Scale drag the scaled component is at least 0.01;
\* a drag that would take it below leaves it at exactly 0.01.
ScaleStaysAtOrAboveFloor ==
    ScaleDragDone =>
        /\ ScaledNow >= ScaleFloor
        /\ \A i \in 1..3 : i # AxisIndex(editor_state.active_axis) =>
               transforms[GroundPlane].scale[i] = frame.before.scale[i]

\* a shrinking drag stopped at the floor
ScaleStoppedAtFloor ==
    /\ ScaleDragDone
    /\ frame.before.scale[AxisIndex(editor_state.active_axis)] > ScaleFloor
    /\ frame.delta[1] + frame.delta[2] < 0
    /\ ScaledNow = ScaleFloor

\* a Move drag has been applied
MoveDragDone == frame.applied /\ editor_state.gizmo_mode = "Move"

\* the change of the object's translation
Moved == VAdd(transforms[GroundPlane].translation, VScale(frame.before.translation, -1))

\* (right * dx + up * (-dy)) * 0.002 * distance, distance in 0.1 world units
WorldDeltaAt(distance) ==
    VScale(VAdd(VScale(frame.cam.right, frame.delta[1]),
                VScale(frame.cam.up, -frame.delta[2])), distance)

\* the direction of the grabbed axis: world X/Y/Z in Global space, the
\* object's rotated basis vector in Local space
GrabbedAxisDir ==
    IF editor_state.axis_space = "Global" THEN UnitVec(editor_state.active_axis)
    ELSE RotatedAxis(frame.before.rotation, editor_state.active_axis)

\* The Move drag moved the object as the world delta for `distance` says:
\* along the grabbed axis by the projection of the world delta onto it, by
\* the world delta itself with no axis grabbed; and, for axis Y, Global space,
\* delta (0,-10) and camera up (0,1,0), by +10 * 0.002 * distance along Y only.
MoveIsProjectedWorldDelta(distance) ==
    LET wd == WorldDeltaAt(distance)
    IN /\ editor_state.active_axis # NoAxis =>
             Moved = VScale(GrabbedAxisDir, VDot(wd, GrabbedAxisDir))
       /\ editor_state.active_axis = NoAxis => Moved = wd
       /\ (/\ editor_state.active_axis = "Y"
           /\ editor_state.axis_space = "Global"
           /\ frame.delta = <<0, -10>>
           /\ frame.cam.up = <<0, 1, 0>>) => Moved = <<0, 10 * distance, 0>>
       /\ transforms[GroundPlane].rotation = frame.before.rotation
       /\ transforms[GroundPlane].scale = frame.before.scale

\* C18 as stated: in Move mode the world delta is
\* (right*dx + up*(-dy)) * 0.002 * distanceToObject; with an axis active the
\* translation changes only along the axis direction, by the projection of
\* the world delta onto it, and with no axis by the world delta itself.
MoveFollowsWorldDelta ==
    MoveDragDone => MoveIsProjectedWorldDelta(frame.cam.distance)

\* C18, amended: the same with the distance to the object taken as at least
\* 0.1 world units.
MoveFollowsFlooredWorldDelta ==
    MoveDragDone => MoveIsProjectedWorldDelta(Max(frame.cam.distance, 1))

\* the scenario of the claim: axis Y, Global space, delta (0,-10), up (0,1,0),
\* the camera 1.0 away: the object moved by 10 * 0.002 * 1.0 along Y
MovedAlongGlobalY ==
    /\ MoveDragDone
    /\ editor_state.active_axis = "Y"
    /\ editor_state.axis_space = "Global"
    /\ frame.delta = <<0, -10>>
    /\ frame.cam.up = <<0, 1, 0>>
    /\ frame.cam.distance = 10
    /\ Moved = <<0, 100, 0>>

\* ----------------------------- SpecRay: ray_aabb_intersection alone
\* ray_aabb_intersection applied once to every box, origin and direction of
\* the sets below.  Coordinates are in 0.5 units.

\* largest ray parameter at which a ray of the model can meet a box
MaxRayParam == 12

\* the unit cube min=(0,0,0) max=(1,1,1) and a flat box (a plane mesh)
RayBoxes ==
    {[min |-> <<0, 0, 0>>, max |-> <<2, 2, 2>>],
     [min |-> <<0, 0, 0>>, max |-> <<2, 0, 2>>]}

\* origins around and inside the boxes, and (-5, 0.5, 0.5)
RayOrigins == ((-2..4) \X (-2..4) \X (-2..4)) \cup {<<-10, 1, 1>>}

RayDirections == {-1, 0, 1} \X {-1, 0, 1} \X {-1, 0, 1}

RayInit ==
    /\ world = InitWorld
    /\ next_entity = 4
    /\ commands = <<>>
    /\ reparent_events = <<>>
    /\ delete_events = <<>>
    /\ spawn_primitive_events = <<>>
    /\ editor_state = InitEditorState
    /\ mouse_input = NoButtons
    /\ transforms = InitTransforms
    /\ pending = <<>>
    /\ fatal = "none"
    /\ \E box \in RayBoxes, origin \in RayOrigins, direction \in RayDirections :
          frame = [box |-> box, origin |-> origin, direction |-> direction,
                   applied |-> FALSE, result |-> NoHit]

\* the call of ray_aabb_intersection in ray_aabb_intersection_world (line 767)
RayCast ==
    /\ ~frame.applied
    /\ frame' = [frame EXCEPT
                    !.applied = TRUE,
                    !.result = RayAabbIntersection(frame.origin, frame.direction,
                                                   frame.box.min, frame.box.max)]
    /\ UNCHANGED <<world, next_entity, commands, reparent_events, delete_events,
                   spawn_primitive_events, editor_state, mouse_input, transforms,
                   pending, fatal>>

SpecRay == RayInit /\ [][RayCast]_vars

\* p lies in the box, boundary included / on its surface
InBox(box, p) == \A i \in 1..3 : box.min[i] <= p[i] /\ p[i] <= box.max[i]
OnSurface(box, p) ==
    InBox(box, p) /\ \E i \in 1..3 : p[i] = box.min[i] \/ p[i] = box.max[i]

\* origin + direction * t
RayPoint(t) == VAdd(frame.origin, VScale(frame.direction, t))

\* the ray's line / the ray itself passes through the box (every entry and
\* exit parameter of the model is an integer within MaxRayParam)
LineMeetsBox == \E t \in -MaxRayParam..MaxRayParam : InBox(frame.box, RayPoint(t))
RayMeetsBox == \E t \in 0..MaxRayParam : InBox(frame.box, RayPoint(t))

\* a ray (direction not zero) has been cast from strictly outside the box
CastFromOutside ==
    /\ frame.applied
    /\ frame.direction # <<0, 0, 0>>
    /\ ~InBox(frame.box, frame.origin)

\* the result for a cast from outside: None iff `meets` is false, a hit lies
\* on the surface, and the scenario's ray hits at distance 5.0
OutsideCastResult(meets) ==
    /\ frame.result = NoHit <=> ~meets
    /\ frame.result # NoHit => OnSurface(frame.box, RayPoint(frame.result))
    /\ (/\ frame.box = [min |-> <<0, 0, 0>>, max |-> <<2, 2, 2>>]
        /\ frame.origin = <<-10, 1, 1>>
        /\ frame.direction = <<1, 0, 0>>) => frame.result = 10

SelectionNeverDangles ==
    editor_state.selected_entity # NoEntity =>
        editor_state.selected_entity \in world.alive

\* C22: while a delete confirmation is pending for node n, further delete
\* requests (the Delete key, the hierarchy panel's delete button) do not change
\* the pending target: delete_confirm stays n until the dialog's Delete or
\* Cancel button clears it.
PendingDeleteTargetIsStable ==
    [][(Due("ui") /\ editor_state.delete_confirm # NoEntity) =>
          editor_state'.delete_confirm \in {editor_state.delete_confirm, NoEntity}]_vars

\* C23: the descendant check that validates a reparent request terminates for
\* every child relation of the store, one with a cycle that does not pass
\* through the node searched for included.  Checked on every store of
\* SpecSnapshot, for every pair (ancestor, node).
DescendantCheckTerminates ==
    \A ancestor \in Entities : \A node \in Entities :
        ~IsDescendant(world, ancestor, node).hang

\* the nodes listed as children of a node of `set` in snapshot h
SnapshotChildrenOf(h, set) ==
    {c \in Entities : \E p \in set \cap DOMAIN h.children :
                          \E i \in 1..Len(h.children[p]) : h.children[p][i] = c}

\* the nodes reached by following the children lists of h from the nodes of
\* `set` (those nodes themselves included)
RECURSIVE SnapshotReach(_, _)
SnapshotReach(h, set) ==
    LET next == set \cup SnapshotChildrenOf(h, set)
    IN IF next = set THEN set ELSE SnapshotReach(h, next)

\* C24: in every snapshot the builder produces, cyclic parent data included,
\* no node is its own ancestor: following the snapshot's children lists from
\* a node never leads back to that node.
SnapshotHasNoOwnAncestor ==
    frame.builds >= 1 =>
        \A n \in Entities :
            n \notin SnapshotReach(frame.first, SnapshotChildrenOf(frame.first, {n}))

\* the nodes the query yields that are reached from the nodes of `set` through
\* the Parent components (a node is added when its parent is in the set)
RECURSIVE ScopeReach(_, _)
ScopeReach(w, set) ==
    LET next == set \cup {e \in w.alive : w.parent[e] \in set}
    IN IF next = set THEN set ELSE ScopeReach(w, next)

\* C25: with a scopeRoot the snapshot's roots are exactly [scopeRoot]; its
\* children and names maps have entries only for nodes reachable from scopeRoot
\* through the parent->children adjacency of the non-hidden nodes, and a node
\* that is not reachable has no entry in either map and is in no children list.
ScopedSnapshotHoldsOnlyReachable ==
    (frame.builds >= 1 /\ frame.root # NoEntity) =>
        LET h == frame.first
            reach == ScopeReach(world, {frame.root})
        IN /\ h.roots = <<frame.root>>
           /\ DOMAIN h.children \subseteq reach
           /\ DOMAIN h.names \subseteq reach
           /\ \A p \in DOMAIN h.children : SeqToSet(h.children[p]) \subseteq reach

\* a scoped snapshot with a children list in it, of a store in which a node
\* outside the scope has a child: its parent is a hidden node
ScopedSnapshotLeftNodesOut ==
    /\ frame.builds >= 1
    /\ frame.root # NoEntity
    /\ frame.root \in DOMAIN frame.first.children
    /\ \E e \in world.alive \ ScopeReach(world, {frame.root}) :
          world.parent[e] \in Entities \ world.alive

\* ------------------------------------------- the "Scene Root" drop zone
\* the scene objects of the store that have no parent (the query of
\* ensure_scene_root_parenting, the root itself left out)
Orphans(w) ==
    {e \in w.alive \cap w.scene_object : w.parent[e] = NoEntity /\ e # SceneRoot}

\* C26: a drop on the "Scene Root" zone emits a reparent request with no
\* parent; apply_reparent_events accepts it without validation (remove_parent
\* is issued) and the entity's parent is removed when the commands are applied;
\* a parentless scene object is, while a scene root exists, a direct child of
\* the scene root again after the next frame's commands, and the snapshot
\* scoped to the scene root lists it.
RootDropDetachesThenRootAdopts ==
    [][/\ \A g \in HierarchyGestures :
             (g.kind = "drop_root" /\ UpdateEditorUi(g) /\ fatal' = "none") =>
                 reparent_events' =
                     Append(reparent_events, [child |-> g.entity, new_parent |-> NoEntity])
       /\ ApplyReparentEvents =>
             \A i \in 1..Len(reparent_events) :
                 reparent_events[i].new_parent = NoEntity =>
                     Cmd("remove_parent", reparent_events[i].child, NoEntity, "")
                         \in IssuedCommands
       /\ (pending = <<>> /\ fatal' = "none") =>
             /\ \A i \in 1..Len(commands) :
                    commands[i].op = "remove_parent" =>
                        \/ commands[i].entity \notin world'.alive
                        \/ world'.parent[commands[i].entity] = NoEntity
             /\ \A e \in Orphans(world) :
                    SceneRoot \in world.alive =>
                        \/ e \notin world'.alive
                        \/ /\ world'.parent[e] = SceneRoot
                           /\ e \in DOMAIN BuildHierarchySnapshot(world', SceneRoot).names
      ]_vars

\* the Ground Plane, dropped on the zone, has lost its parent and the command
\* that puts it under the scene root is in the buffer
DroppedGroundPlaneAwaitsRoot ==
    /\ pending = <<>>
    /\ fatal = "none"
    /\ GroundPlane \in Orphans(world)
    /\ \E i \in 1..Len(commands) :
          commands[i] = Cmd("set_parent", GroundPlane, SceneRoot, "")

\* ------------------------------------------- Scale and Rotate drags
\* the factor of a Scale drag, in 0.001: clamp(1 + (dx + dy) * 0.005, 0.1, 10.0)
ScaleFactor ==
    LET amount == 1000 + (frame.delta[1] + frame.delta[2]) * 5
    IN IF amount < 100 THEN 100 ELSE IF amount > 10000 THEN 10000 ELSE amount

\* C27: in Scale mode with an axis active a drag multiplies only that axis's
\* scale component by clamp(1 + (dx+dy)*0.005, 0.1, 10.0) and floors the
\* result at 0.01; the other two scale components, the translation and the
\* rotation are unchanged; with no axis active the drag changes nothing.
\* (Every scale of DragScales is a multiple of 0.001, so the product is exact.)
ScaleDragScalesGrabbedAxisOnly ==
    (frame.applied /\ editor_state.gizmo_mode = "Scale") =>
        IF editor_state.active_axis = NoAxis
        THEN transforms[GroundPlane] = frame.before
        ELSE LET k == AxisIndex(editor_state.active_axis)
                 product == (frame.before.scale[k] \div 1000) * ScaleFactor
             IN /\ frame.before.scale[k] % 1000 = 0
                /\ transforms[GroundPlane].scale[k] =
                       (IF product < ScaleFloor THEN ScaleFloor ELSE product)
                /\ \A i \in 1..3 : i # k =>
                       transforms[GroundPlane].scale[i] = frame.before.scale[i]
                /\ transforms[GroundPlane].translation = frame.before.translation
                /\ transforms[GroundPlane].rotation = frame.before.rotation

\* a drag of 2000 pixels, its factor clamped to 10.0, took the default scale
\* of the grabbed axis to ten times its value and left the other two alone
ScaledTenfoldOnOneAxis ==
    /\ ScaleDragDone
    /\ frame.delta = <<2000, 0>>
    /\ frame.before.scale = <<1000000, 1000000, 1000000>>
    /\ ScaledNow = 10000000
    /\ \E i \in 1..3 : transforms[GroundPlane].scale[i] = 1000000

\* C28: in Rotate mode a drag with no active axis leaves the transform
\* entirely unchanged; with an axis active the object is rotated about that
\* axis direction by (dx+dy)*0.004 radians (one angle unit per pixel) and its
\* translation and scale are unchanged.
RotateDragTurnsAboutGrabbedAxis ==
    (frame.applied /\ editor_state.gizmo_mode = "Rotate") =>
        IF editor_state.active_axis = NoAxis
        THEN transforms[GroundPlane] = frame.before
        ELSE LET now == transforms[GroundPlane].rotation
                 turned == frame.delta[1] + frame.delta[2]
             IN /\ now.axis = DirAxis(GrabbedAxisDir)
                /\ now.quarter = frame.before.rotation.quarter
                /\ now.angle = frame.before.rotation.angle + DirSign(GrabbedAxisDir) * turned
                /\ transforms[GroundPlane].translation = frame.before.translation
                /\ transforms[GroundPlane].scale = frame.before.scale

\* the ground plane, a quarter turn back about X, dragged by (3,4) on its
\* local X handle: turned 7 * 0.004 rad further about X
RotatedAboutLocalX ==
    /\ frame.applied
    /\ editor_state.gizmo_mode = "Rotate"
    /\ editor_state.active_axis = "X"
    /\ editor_state.axis_space = "Local"
    /\ frame.delta = <<3, 4>>
    /\ frame.before.rotation.axis = "X"
    /\ transforms[GroundPlane].rotation.angle = 7
    /\ transforms[GroundPlane].rotation.quarter = frame.before.rotation.quarter

\* ----------------- SpecGizmo: the gizmo overlay and pick_gizmo_axis alone
\* One frame of the overlay construction of update_editor_ui followed by one
\* call of pick_gizmo_axis, for every selection, projection outcome, gizmo
\* mode and click of the sets below.  Screen positions are integer pairs.

\* steps of build_rotate_overlay: each ring is sampled at 0..=steps
Steps == 40

\* world_to_viewport returned None
NoPoint == <<>>

\* Option<RotateOverlay>: None
NoRings == [some |-> FALSE, x_points |-> <<>>, y_points |-> <<>>, z_points |-> <<>>]

\* Option<GizmoOverlay>: None
NoGizmo == [present |-> FALSE, origin |-> NoPoint, x_end |-> NoPoint,
            y_end |-> NoPoint, z_end |-> NoPoint, rotate_rings |-> NoRings]

\* the samples 0..=steps of one ring as world_to_viewport returns them
RingSamples(proj, axis) == [k \in 1..(Steps + 1) |-> proj[axis][k - 1]]

\* build_rotate_overlay that leaves a sample out when it does not project
BuildRotateOverlaySkipsFailed(proj) ==
    [some |-> TRUE,
     x_points |-> SelectSeq(RingSamples(proj, "X"), LAMBDA point : point # NoPoint),
     y_points |-> SelectSeq(RingSamples(proj, "Y"), LAMBDA point : point # NoPoint),
     z_points |-> SelectSeq(RingSamples(proj, "Z"), LAMBDA point : point # NoPoint)]

\* build_rotate_overlay(camera, camera_transform, origin, axes, radius):
\* proj[ring][i] is the result of world_to_viewport for sample i of the ring.
\* The loop over i in 0..=steps returns None at the first sample of any ring
\* that does not project; otherwise every ring gets all its samples in order.
BuildRotateOverlay(proj) ==
    IF \E i \in 0..Steps : \E axis \in GizmoAxes : proj[axis][i] = NoPoint
    THEN NoRings
    ELSE [some |-> TRUE,
          x_points |-> RingSamples(proj, "X"),
          y_points |-> RingSamples(proj, "Y"),
          z_points |-> RingSamples(proj, "Z")]

\* The overlay of the frame (lines 403-442): None without a selection or when
\* the origin or a tip does not project; tips = <<x_end, y_end, z_end>>
GizmoOverlayOf(selected, projects, origin, tips, proj) ==
    IF selected # NoEntity /\ projects
    THEN [present |-> TRUE, origin |-> origin, x_end |-> tips[1], y_end |-> tips[2],
          z_end |-> tips[3], rotate_rings |-> BuildRotateOverlay(proj)]
    ELSE NoGizmo

\* Vec2 arithmetic
V2Sub(a, b) == <<a[1] - b[1], a[2] - b[2]>>
V2Dot(a, b) == a[1] * b[1] + a[2] * b[2]

\* the largest distance between two screen positions of the model
MaxScreenDistance == 100

\* is n the square of an integer distance of the model
Squares == {r * r : r \in 0..MaxScreenDistance}
IsSquare(n) == n \in Squares

\* the square root of n, exact for a square and the next integer up otherwise
Sqrt(n) ==
    CHOOSE r \in 0..MaxScreenDistance : r * r >= n /\ (r = 0 \/ (r - 1) * (r - 1) < n)

\* the point of segment a-b closest to `point`, times len2 (1 for a = b):
\* t = clamp((point - a).dot(ab) / ab.length_squared(), 0, 1), a + ab * t
ClosestTimes(point, a, b) ==
    LET ab == V2Sub(b, a)
        len2 == V2Dot(ab, ab)
        dot == V2Dot(V2Sub(point, a), ab)
        t == IF len2 > 0 THEN (IF dot < 0 THEN 0 ELSE IF dot > len2 THEN len2 ELSE dot)
             ELSE 0
        den == IF len2 > 0 THEN len2 ELSE 1
    IN [times |-> den,
        at |-> <<a[1] * den + ab[1] * t, a[2] * den + ab[2] * t>>]

\* has the closest point of the segment integer coordinates
ClosestDefined(point, a, b) ==
    LET c == ClosestTimes(point, a, b)
    IN c.at[1] % c.times = 0 /\ c.at[2] % c.times = 0

\* point.distance(closest), squared
SegmentDistanceSquared(point, a, b) ==
    LET c == ClosestTimes(point, a, b)
        closest == <<c.at[1] \div c.times, c.at[2] \div c.times>>
        d == V2Sub(point, closest)
    IN V2Dot(d, d)

\* Is distance_to_segment(point, a, b) an integer: the closest point has
\* integer coordinates and lies a whole number of units away
SegmentDistanceDefined(point, a, b) ==
    ClosestDefined(point, a, b) /\ IsSquare(SegmentDistanceSquared(point, a, b))

\* distance_to_segment(point, a, b)
DistanceToSegment(point, a, b) == Sqrt(SegmentDistanceSquared(point, a, b))

\* distance_to_polyline(point, points): the least distance_to_segment over
\* points.windows(2), f32::INFINITY when there is no window
DistanceToPolyline(point, points) ==
    LET distances == {DistanceToSegment(point, points[i], points[i + 1]) :
                         i \in 1..(Len(points) - 1)}
    IN IF distances = {} THEN Infinity
       ELSE CHOOSE d \in distances : \A e \in distances : d <= e

\* Is distance_to_polyline(point, points) an integer: the least of the
\* squared distances to its segments is a square
PolylineDistanceDefined(point, points) ==
    LET windows == 1..(Len(points) - 1)
        squares == {SegmentDistanceSquared(point, points[i], points[i + 1]) :
                       i \in windows}
    IN /\ \A i \in windows : ClosestDefined(point, points[i], points[i + 1])
       /\ squares # {} =>
              IsSquare(CHOOSE least \in squares : \A other \in squares : least <= other)

\* the points of a ring of the overlay
RingPointsOf(rings, axis) ==
    CASE axis = "X" -> rings.x_points
      [] axis = "Y" -> rings.y_points
      [] axis = "Z" -> rings.z_points

\* the tip of a handle of the overlay
TipOf(overlay, axis) ==
    CASE axis = "X" -> overlay.x_end
      [] axis = "Y" -> overlay.y_end
      [] axis = "Z" -> overlay.z_end

\* The distance pick_gizmo_axis measures for each handle: to the ring's
\* polyline in Rotate mode (a ring of fewer than 2 points is skipped), to the
\* segment origin-tip otherwise
GizmoHandleDistances(overlay, mode, click_pos) ==
    [axis \in GizmoAxes |->
        IF mode = "Rotate"
        THEN IF Len(RingPointsOf(overlay.rotate_rings, axis)) >= 2
             THEN DistanceToPolyline(click_pos, RingPointsOf(overlay.rotate_rings, axis))
             ELSE Infinity
        ELSE DistanceToSegment(click_pos, overlay.origin, TipOf(overlay, axis))]

GizmoHandleDistancesDefined(overlay, mode, click_pos) ==
    \A axis \in GizmoAxes :
        IF mode = "Rotate"
        THEN PolylineDistanceDefined(click_pos, RingPointsOf(overlay.rotate_rings, axis))
        ELSE SegmentDistanceDefined(click_pos, overlay.origin, TipOf(overlay, axis))

\* pick_gizmo_axis(overlay, mode, click_pos) on the overlay with its positions
PickGizmoAxisAt(overlay, mode, click_pos) ==
    IF ~overlay.present THEN NoAxis
    ELSE PickGizmoAxis([present |-> TRUE, rotate_rings |-> overlay.rotate_rings.some],
                       mode, GizmoHandleDistances(overlay, mode, click_pos))

\* sample i of a ring as the camera projects it: the model's rings are square
\* loops about the origin with half-side h, ten segments to a side, closed
\* (sample `Steps` is sample 0 again, as angle TAU is angle 0)
RingPoint(h, i) ==
    LET s == h \div 5
        j == i % 10
    IN CASE (i \div 10) % 4 = 0 -> <<h, j * s - h>>
         [] (i \div 10) % 4 = 1 -> <<h - j * s, h>>
         [] (i \div 10) % 4 = 2 -> <<-h, h - j * s>>
         [] (i \div 10) % 4 = 3 -> <<j * s - h, -h>>

\* half-sides of the X, Y and Z ring on screen
GizmoRingSizes == {<<5, 10, 15>>, <<5, 15, 5>>, <<15, 10, 15>>}

\* projected tips of the X, Y and Z handle (the origin projects to (0,0)):
\* three directions apart; Z over X; Y over X and Z towards the camera
GizmoTips ==
    {<< <<20, 0>>, <<0, -20>>, <<-20, 0>> >>,
     << <<20, 0>>, <<0, -20>>, <<20, 0>> >>,
     << <<20, 0>>, <<20, 0>>, <<0, 0>> >>}

\* the ring samples for which world_to_viewport returns None
GizmoFailures == {{}, {<<"X", 0>>}, {<<"Y", 20>>}, {<<"Z", Steps>>}}

\* world_to_viewport over the samples of the three rings
RingProjection(sizes, failing) ==
    [axis \in GizmoAxes |->
        [i \in 0..Steps |->
            IF <<axis, i>> \in failing THEN NoPoint
            ELSE RingPoint(sizes[AxisIndex(axis)], i)]]

\* the coordinates of the clicks: inside, on, between and outside the handles
ClickCoords == {-16, -4, 0, 3, 5, 10, 12, 31}

GizmoInit ==
    /\ world = InitWorld
    /\ next_entity = 4
    /\ commands = <<>>
    /\ reparent_events = <<>>
    /\ delete_events = <<>>
    /\ spawn_primitive_events = <<>>
    /\ \E mode \in GizmoModes, selected \in {NoEntity, GroundPlane} :
          editor_state = [InitEditorState EXCEPT !.gizmo_mode = mode,
                                                 !.selected_entity = selected]
    /\ mouse_input = NoButtons
    /\ transforms = InitTransforms
    /\ pending = <<>>
    /\ fatal = "none"
    /\ \E projects \in BOOLEAN, tips \in GizmoTips, sizes \in GizmoRingSizes,
          failing \in GizmoFailures, x \in ClickCoords, y \in ClickCoords :
          /\ LET overlay == GizmoOverlayOf(editor_state.selected_entity, projects,
                                           <<0, 0>>, tips, RingProjection(sizes, failing))
             IN overlay.present =>
                    GizmoHandleDistancesDefined(overlay, editor_state.gizmo_mode, <<x, y>>)
          /\ frame = [projects |-> projects, tips |-> tips, sizes |-> sizes,
                      failing |-> failing, click_pos |-> <<x, y>>, stage |-> "start",
                      overlay |-> NoGizmo, picked |-> NoAxis]

\* lines 403-442 of update_editor_ui: the overlay of this frame
GizmoOverlayBuild ==
    /\ frame.stage = "start"
    /\ frame' = [frame EXCEPT
           !.stage = "built",
           !.overlay = GizmoOverlayOf(editor_state.selected_entity, frame.projects,
                                      <<0, 0>>, frame.tips,
                                      RingProjection(frame.sizes, frame.failing))]
    /\ editor_state' = [editor_state EXCEPT !.gizmo_overlay =
           [present |-> frame'.overlay.present,
            rotate_rings |-> frame'.overlay.rotate_rings.some]]
    /\ UNCHANGED <<world, next_entity, commands, reparent_events, delete_events,
                   spawn_primitive_events, mouse_input, transforms, pending, fatal>>

\* the call of pick_gizmo_axis for a click at click_pos
GizmoPick ==
    /\ frame.stage = "built"
    /\ frame' = [frame EXCEPT
           !.stage = "picked",
           !.picked = PickGizmoAxisAt(frame.overlay, editor_state.gizmo_mode,
                                      frame.click_pos)]
    /\ UNCHANGED <<world, next_entity, commands, reparent_events, delete_events,
                   spawn_primitive_events, editor_state, mouse_input, transforms,
                   pending, fatal>>

SpecGizmo == GizmoInit /\ [][GizmoOverlayBuild \/ GizmoPick]_vars

\* the distance from the click of this run to the handle of each axis
ClickDistances ==
    GizmoHandleDistances(frame.overlay, editor_state.gizmo_mode, frame.click_pos)

\* pick_gizmo_axis has handles to test: an overlay, and in Rotate mode its rings
HandlesOffered ==
    /\ frame.overlay.present
    /\ editor_state.gizmo_mode = "Rotate" => frame.overlay.rotate_rings.some

\* C29: pick_gizmo_axis returns the axis whose handle (the segment origin-tip
\* in Move and Scale mode, the ring's polyline in Rotate mode) is nearest to
\* the click among the handles within 10 screen units of it, the first in the
\* order X, Y, Z on an exact tie; it returns no axis when no handle is within
\* the threshold, when there is no overlay, and in Rotate mode without rings.
PickReturnsNearestHandleWithinThreshold ==
    frame.stage = "picked" =>
        LET within == IF HandlesOffered
                      THEN {axis \in GizmoAxes : ClickDistances[axis] <= 10}
                      ELSE {}
        IN IF within = {} THEN frame.picked = NoAxis
           ELSE /\ frame.picked \in within
                /\ \A axis \in within :
                       \/ ClickDistances[frame.picked] < ClickDistances[axis]
                       \/ /\ ClickDistances[frame.picked] = ClickDistances[axis]
                          /\ AxisIndex(frame.picked) <= AxisIndex(axis)

\* a click as far from the Y handle as from the X handle, nearer to both than
\* to the Z handle, all three within the threshold: X was returned
TiedHandlesPickedX ==
    /\ frame.stage = "picked"
    /\ HandlesOffered
    /\ ClickDistances["X"] = ClickDistances["Y"]
    /\ ClickDistances["X"] < ClickDistances["Z"]
    /\ ClickDistances["Z"] <= GizmoThreshold
    /\ frame.picked = "X"

\* C30: the rotate-ring overlay is all-or-nothing.  In every frame it is
\* absent, or it is three rings of exactly 41 projected points each; if any
\* sample of any ring fails to project the whole ring set is absent and no
\* partial ring is stored.
RotateRingsAllOrNothing ==
    LET rings == frame.overlay.rotate_rings
    IN /\ \/ /\ ~rings.some
             /\ rings.x_points = <<>> /\ rings.y_points = <<>> /\ rings.z_points = <<>>
          \/ /\ rings.some
             /\ frame.overlay.present
             /\ \A axis \in GizmoAxes :
                    /\ Len(RingPointsOf(rings, axis)) = 41
                    /\ \A i \in 1..41 : RingPointsOf(rings, axis)[i] # NoPoint
       /\ (frame.stage # "start" /\ frame.failing # {}) => ~rings.some
       /\ editor_state.gizmo_overlay.rotate_rings = rings.some

\* an overlay was built in a frame in which one ring sample did not project:
\* it has its handles and no rings
RingsDroppedForOneSample ==
    /\ frame.stage = "built"
    /\ frame.overlay.present
    /\ frame.failing # {}
    /\ ~frame.overlay.rotate_rings.some

====
